---- MODULE Spec2Model ----
(***************************************************************************)
(* A model of the ICM memory service (rtk-ai/icm): the SQLite memory store *)
(* (crates/icm-store/src/store.rs), the concept graph on top of it and the *)
(* tool dispatcher (crates/icm-mcp/src/tools.rs).                          *)
(*                                                                         *)
(* Weights are exact rationals: a weight is an integer number of units of  *)
(* 1/WUnit, and a decay factor is a pair num/den.  A confidence is an f32  *)
(* counted in units of 2^-24, and adding 0.1 rounds as f32 addition does.  *)
(***************************************************************************)
EXTENDS Integers, Sequences, FiniteSets, TLC

VARIABLES
    memories,   \* the rows of table memories
    fts,        \* the rows indexed in memories_fts
    ret,        \* the last call and what it returned
    call,       \* the consolidate_topic call in flight on the writer's connection
    obs,        \* what a reader on a second connection last saw
    embedder,   \* whether the tool server was started with an embedder
    memoirs,    \* the rows of table memoirs
    concepts,   \* the rows of table concepts
    refine,     \* per connection, the refine_concept call in flight on it
    links,      \* the rows of table concept_links
    out,        \* what the last search, get or get_neighborhood returned
    server      \* the MCP server loop: the lines read from stdin, and stdout

vars == <<memories, fts, ret, call, obs, embedder, memoirs, concepts, refine, links, out,
          server>>

conc == <<call, obs>>
graph == <<memoirs, concepts, refine, links, out>>

----------------------------------------------------------------------------
(* Bounds and input domains *)

MaxHalvings == 2
MaxAccess == 1
MaxRevision == 2
MaxLinks == 4
MaxDepth == 3
MaxLines == 2
MaxSentences == 31

\* A weight of 1.0, in weight units; every weight that MaxHalvings halvings of
\* 1.0 can produce is a whole number of units.
WUnit == 2 ^ MaxHalvings

MemIds == {"m1", "m2", "m3"}
Topics == {"ta", "tb"}
Summaries == {"s1", "s2"}
Importances == {"critical", "high", "medium", "low"}

Half == [num |-> 1, den |-> 2]
One == [num |-> 1, den |-> 1]
Zero == [num |-> 0, den |-> 1]
Factors == {Zero, Half, One}

Thresholds == {0, WUnit \div 2, WUnit, WUnit + 1}

\* An argument the caller left out of the arguments object.
Missing == "<missing>"

\* Arguments of the tool calls.
ToolTopics == Topics \cup {Missing}
ToolContents == {"s1", Missing}
ToolImportances == {"critical", "bogus", Missing}
Queries == {"ta", "s", "a-b", Missing}
\* The limit of icm_recall when the caller gives none.
DefaultLimit == 5
Limits == {-1, 0, 1, DefaultLimit}
\* The greatest limit the schema of icm_recall advertises.
MaxLimit == 20

\* Memories handed to store, update and consolidate_topic by the callers of
\* the CRUD specification.
StoreInputs ==
    [id : MemIds, topic : Topics, summary : Summaries, keywords : {<<>>},
     importance : {"critical", "medium"}, weight : {WUnit}, access_count : {0}]

\* Memories handed to store and consolidate_topic by the writer of the
\* interleaved specification.
WriterInputs ==
    [id : MemIds, topic : Topics, summary : {"s1"}, keywords : {<<>>},
     importance : {"medium"}, weight : {WUnit}, access_count : {0}]

\* Memories handed to store by the callers of the decay specification.
DecayInputs ==
    [id : MemIds, topic : {"ta"}, summary : {"s1"}, keywords : {<<>>},
     importance : Importances, weight : {1, WUnit}, access_count : {0}]

\* Memories of the decay and prune cycles, and the thresholds above the
\* least weight the halvings of the model reach.
ForgetIds == {"m1", "m2"}
ForgetInputs ==
    {m \in DecayInputs :
        m.id \in ForgetIds /\ m.importance \in {"critical", "medium"} /\ m.weight = WUnit}
PositiveThresholds == {WUnit \div 2, WUnit}

\* f32 confidences, in units of 2^-24.
One32 == 2 ^ 24
Half32 == 2 ^ 23
\* The f32 nearest to 0.1, in units of 2^-27.
Tenth == 13421773

\* Inputs of the concept graph.
Conns == {"ca", "cb"}
MemoirIds == {"p1"}
ConceptIds == {"c1", "c2"}
ConceptNames == {"n1", "n2"}
Definitions == {"d1", "d2"}
MemoirInputs == [id : MemoirIds, name : {"proj"}]
ConceptInputs ==
    [id : ConceptIds, memoir_id : MemoirIds, name : ConceptNames,
     definition : {"d1"}, labels : {<<"l1">>},
     confidence : {Half32, 3 * Half32}, revision : {1},
     created_at : {0}, updated_at : {0},
     source_memory_ids : {<<>>, <<"m2", "m2">>}]
NewSources == {<<>>, <<"m1">>, <<"m1", "m1">>, <<"m2", "m1">>}
Times == {1}
\* Inputs of the memoir, concept and link operations of the graph.
GraphMemoirIds == {"p1", "p2"}
MemoirNames == {"proj", "other"}
GraphMemoirs == [id : GraphMemoirIds, name : MemoirNames]
GraphConcepts ==
    [id : ConceptIds, memoir_id : GraphMemoirIds, name : ConceptNames,
     definition : {"d1"}, labels : {<<"l1">>}, confidence : {Half32},
     revision : {1}, created_at : {0}, updated_at : {0},
     source_memory_ids : {<<>>}]
NamedConceptIds == {"c1", "c2", "c3"}
NamedConcepts ==
    [id : NamedConceptIds, memoir_id : GraphMemoirIds, name : ConceptNames,
     definition : {"d1"}, labels : {<<"l1">>}, confidence : {Half32},
     revision : {1}, created_at : {0}, updated_at : {0},
     source_memory_ids : {<<>>}]
LinkIds == {"l1", "l2", "l3"}
Relations == {"PartOf", "DependsOn"}
GraphLinks ==
    [id : LinkIds, source_id : ConceptIds, target_id : ConceptIds,
     relation : Relations, weight : {One32}, created_at : {0}]

\* Inputs of the link operations between the concepts of one memoir.
LinkedConcepts ==
    {c \in GraphConcepts : c.memoir_id \in MemoirIds /\ (c.name = "n1" <=> c.id = "c1")}
\* Inputs of the deletions: three concepts in two memoirs, two links.
CascadeMemoirs == {[id |-> "p1", name |-> "proj"], [id |-> "p2", name |-> "other"]}
CascadeConceptIds == {"c1", "c2", "c3"}
CascadeConcepts ==
    {[id |-> i, memoir_id |-> m, name |-> i, definition |-> "d1", labels |-> <<"l1">>,
      confidence |-> Half32, revision |-> 1, created_at |-> 0, updated_at |-> 0,
      source_memory_ids |-> <<>>] : i \in CascadeConceptIds, m \in GraphMemoirIds}
CascadeLinkIds == {"l1", "l2"}
CascadeLinks ==
    [id : CascadeLinkIds, source_id : CascadeConceptIds, target_id : CascadeConceptIds,
     relation : {"PartOf"}, weight : {One32}, created_at : {0}]
\* Arguments of icm_memoir_link.
ToolMemoirNames == MemoirNames \cup {Missing}
ToolConceptNames == ConceptNames \cup {Missing}
ToolRelations == {"part_of", "bogus", Missing}

\* Fully formed memories handed to store: every importance, every source
\* variant, with and without raw_excerpt, keywords, related_ids and
\* embedding. An Option is a sequence of length 0 or 1.
Manual == [variant |-> "Manual"]
Sources ==
    {Manual,
     [variant |-> "ClaudeCode", session_id |-> "s1", file_path |-> <<>>],
     [variant |-> "ClaudeCode", session_id |-> "s1", file_path |-> <<"f1">>],
     [variant |-> "Conversation", thread_id |-> "t1"]}
ImportanceVariants == {"Critical", "High", "Medium", "Low"}
FullMemories ==
    [id : {"m1"}, created_at : {1}, last_accessed : {2}, access_count : {0},
     weight : {WUnit}, topic : {"ta"}, summary : {"s1"},
     raw_excerpt : {<<>>, <<"raw">>}, keywords : {<<>>, <<"k1", "k2">>},
     importance : ImportanceVariants, source : Sources,
     related_ids : {<<>>, <<"m3">>}, embedding : {<<>>, <<<<1, 2>>>>}]

\* Inputs of the searches: memories with and without a keyword, concepts
\* with and without a label.
SearchMemories ==
    [id : {"m1", "m2"}, topic : {"ta"}, summary : {"s1"}, keywords : {<<>>, <<"k1">>},
     importance : {"medium"}, weight : {WUnit}, access_count : {0}]
SearchWords == {"ta", "k1", "m1", "", "a-b"}
LabelAX == [namespace |-> "a", value |-> "x"]
LabelBY == [namespace |-> "b", value |-> "y"]
SearchConcepts ==
    {[id |-> i, memoir_id |-> "p1", name |-> i, definition |-> "d1", labels |-> ls,
      confidence |-> Half32, revision |-> 1, created_at |-> 0, updated_at |-> 0,
      source_memory_ids |-> <<>>] : i \in ConceptIds, ls \in {<<>>, <<LabelAX>>}}
ConceptWords == {"d1", "x", "c1", "namespace", ""}

\* Memories of the index specification: the text columns vary.
FtsMemories ==
    [id : {"m1", "m2"}, topic : Topics, summary : {"s1"}, keywords : {<<>>, <<"k1">>},
     importance : {"medium"}, weight : {WUnit}, access_count : {0}]
FtsWords == {"ta", "k1", "m1"}

\* Inputs of the label search: concepts of two memoirs with no label, one
\* label and two labels in either order.
LabelLists == {<<>>, <<LabelAX>>, <<LabelAX, LabelBY>>, <<LabelBY, LabelAX>>}
LabelledConcepts ==
    {[id |-> i, memoir_id |-> m, name |-> i, definition |-> "d1", labels |-> ls,
      confidence |-> c, revision |-> 1, created_at |-> 0, updated_at |-> 0,
      source_memory_ids |-> <<>>] :
        i \in ConceptIds, m \in GraphMemoirIds, ls \in LabelLists, c \in {Half32, One32}}
QueryLabels == [namespace : {"a", "b"}, value : {"x", "y"}]

\* A line that is no JSON object has none of a request's members.
NoLine == [kind |-> "none", jsonrpc |-> FALSE, id |-> Missing, method |-> Missing,
           params |-> <<>>]
\* Before the first line is read: nothing read, nothing written, the loop
\* running and the writer of stdin still holding its end.
NoServer == [stdin |-> <<>>, stdout |-> <<>>, open |-> TRUE, closed |-> FALSE]

\* A member of "arguments" read as a number: absent, a JSON integer, or a
\* value that is no integer.
JsonAbsent == [kind |-> "absent", n |-> 0]
JsonInteger(n) == [kind |-> "integer", n |-> n]
JsonString == [kind |-> "string", n |-> 0]

\* The members of "arguments" the tools read; a string member the caller
\* left out, or gave a value that is no string, is Missing.
NoArguments ==
    [topic |-> Missing, content |-> Missing, importance |-> Missing, id |-> Missing,
     query |-> Missing, limit |-> JsonAbsent, summary |-> Missing,
     memoir |-> Missing, from |-> Missing, to |-> Missing, relation |-> Missing,
     name |-> Missing, definition |-> Missing, depth |-> JsonAbsent]

\* A line that is a JSON object: whether it has the string member "jsonrpc",
\* its "id" (Missing when absent, "null" for the JSON null), its "method"
\* (Missing when absent) and its "params" (none, or the "name" and
\* "arguments" read from it).
JsonLine(jsonrpc, id, method, params) ==
    [kind |-> "json", jsonrpc |-> jsonrpc, id |-> id, method |-> method,
     params |-> params]
BlankLine == [NoLine EXCEPT !.kind = "blank"]
GarbageLine == [NoLine EXCEPT !.kind = "garbage"]
UnreadableLine == [NoLine EXCEPT !.kind = "unreadable"]
Params(name, arguments) == <<[name |-> name, arguments |-> arguments]>>

\* Lines on stdin: one that cannot be read, a blank one, one that is not
\* JSON, an object without "jsonrpc", and requests with each method, with
\* and without an id; the calls of tools with and without params, name and
\* arguments.
RequestIds == {Missing, "null", "1", "2"}
Methods == {"initialize", "ping", "tools/list", "resources/list", Missing}
ToolCalls ==
    {<<>>,
     Params(Missing, NoArguments),
     Params("icm_store", [NoArguments EXCEPT !.topic = "ta", !.content = "s1"]),
     Params("icm_store", NoArguments),
     Params("icm_recall", [NoArguments EXCEPT !.query = "ta"]),
     Params("icm_recall", [NoArguments EXCEPT !.query = "a-b"]),
     Params("icm_forget", [NoArguments EXCEPT !.id = "m1"]),
     Params("icm_consolidate", [NoArguments EXCEPT !.topic = "ta", !.summary = "s2"]),
     Params("icm_list_topics", NoArguments),
     Params("icm_stats", NoArguments),
     Params("icm_embed_all", NoArguments),
     Params("icm_memoir_link", [NoArguments EXCEPT !.memoir = "proj", !.from = "c1",
                                                   !.to = "c2", !.relation = "part_of"]),
     Params("icm_memoir_link", [NoArguments EXCEPT !.memoir = "proj", !.from = "c1",
                                                   !.to = "c1", !.relation = "part_of"]),
     Params("icm_unknown", NoArguments)}
ServerLines ==
    {UnreadableLine, BlankLine, GarbageLine, JsonLine(FALSE, "1", "ping", <<>>)}
      \cup {JsonLine(TRUE, id, m, <<>>) : id \in RequestIds, m \in Methods}
      \cup {JsonLine(TRUE, id, "tools/call", p) : id \in {Missing, "1"}, p \in ToolCalls}

\* Calls of every tool: one with its required fields, one without each of
\* them, and calls that name a memoir, a concept or a memory that is absent.
Call(name, arguments) == JsonLine(TRUE, "1", "tools/call", Params(name, arguments))
StoreArguments == [NoArguments EXCEPT !.topic = "ta", !.content = "s1"]
RecallArguments == [NoArguments EXCEPT !.query = "ta"]
ConsolidateArguments == [NoArguments EXCEPT !.topic = "ta", !.summary = "s2"]
ConceptArguments ==
    [NoArguments EXCEPT !.memoir = "proj", !.name = "c1", !.definition = "d2"]
SearchArguments == [NoArguments EXCEPT !.memoir = "proj", !.query = "d1"]
LinkArguments ==
    [NoArguments EXCEPT !.memoir = "proj", !.from = "c2", !.to = "c1",
                        !.relation = "part_of"]
InspectArguments == [NoArguments EXCEPT !.memoir = "proj", !.name = "c1"]
DispatchLines ==
    {JsonLine(TRUE, "1", m, <<>>) : m \in {"initialize", "ping", "tools/list"}}
      \cup {Call("icm_store", a) :
              a \in {StoreArguments, [StoreArguments EXCEPT !.topic = Missing],
                     [StoreArguments EXCEPT !.content = Missing]}}
      \cup {Call("icm_recall", a) :
              a \in {RecallArguments, NoArguments,
                     [RecallArguments EXCEPT !.topic = "tb"]}}
      \cup {Call("icm_forget", a) :
              a \in {[NoArguments EXCEPT !.id = "m1"], NoArguments}}
      \cup {Call("icm_consolidate", a) :
              a \in {ConsolidateArguments, [ConsolidateArguments EXCEPT !.topic = Missing],
                     [ConsolidateArguments EXCEPT !.summary = Missing]}}
      \cup {Call(n, NoArguments) :
              n \in {"icm_list_topics", "icm_stats", "icm_embed_all", "icm_memoir_list",
                     "icm_unknown"}}
      \cup {Call(n, a) :
              n \in {"icm_memoir_create", "icm_memoir_show"},
              a \in {[NoArguments EXCEPT !.name = "proj"],
                     [NoArguments EXCEPT !.name = "other"], NoArguments}}
      \cup {Call(n, a) :
              n \in {"icm_memoir_add_concept", "icm_memoir_refine"},
              a \in {ConceptArguments, [ConceptArguments EXCEPT !.name = "c3"],
                     [ConceptArguments EXCEPT !.memoir = Missing],
                     [ConceptArguments EXCEPT !.name = Missing],
                     [ConceptArguments EXCEPT !.definition = Missing]}}
      \cup {Call("icm_memoir_search", a) :
              a \in {SearchArguments, [SearchArguments EXCEPT !.limit = JsonInteger(1)],
                     [SearchArguments EXCEPT !.query = "a-b"],
                     [SearchArguments EXCEPT !.memoir = Missing],
                     [SearchArguments EXCEPT !.query = Missing]}}
      \cup {Call("icm_memoir_link", a) :
              a \in {LinkArguments, [LinkArguments EXCEPT !.memoir = Missing],
                     [LinkArguments EXCEPT !.from = Missing],
                     [LinkArguments EXCEPT !.to = Missing],
                     [LinkArguments EXCEPT !.relation = Missing]}}
      \cup {Call("icm_memoir_inspect", a) :
              a \in {InspectArguments, [InspectArguments EXCEPT !.depth = JsonInteger(2)],
                     [InspectArguments EXCEPT !.name = "c3"],
                     [InspectArguments EXCEPT !.memoir = Missing],
                     [InspectArguments EXCEPT !.name = Missing]}}

\* Lines of a stream that gets closed: a request, a notification, a call of
\* a tool, a blank line, a line that is not JSON and one that cannot be read.
CloseLines ==
    {JsonLine(TRUE, "1", "ping", <<>>), JsonLine(TRUE, Missing, "ping", <<>>),
     Call("icm_store", StoreArguments), BlankLine, GarbageLine, UnreadableLine}

\* Inputs of the fact extractor.  Fillers are words no keyword list has.
Fillers ==
    <<"w1", "w2", "w3", "w4", "w5", "w6", "w7", "w8", "w9", "w10", "w11", "w12",
      "w13", "w14", "w15", "w16", "w17", "w18", "w19", "w20", "w21", "w22", "w23",
      "w24", "w25", "w26", "w27", "w28", "w29", "w30", "w31", "w32", "w33", "w34">>
Piece(len, words) ==
    [len |-> len, words |-> words, has_numbers |-> FALSE, proper_nouns |-> 0]
\* The i-th of a run of pieces that score alike and share one word only.
Distinct(i) == Piece(40, {"algorithm", Fillers[i]})
\* Pieces after the run: one like the first of the run, two that share
\* three words of five, one that scores higher, one that scores too low,
\* one too short and one too long.
Tails ==
    LET pool == {Piece(40, {"algorithm", "w1", "the"}),
                 Piece(40, {"because", "a", "b", "c"}),
                 Piece(40, {"because", "a", "b", "d"}),
                 [Piece(40, {"algorithm", "because", "x"}) EXCEPT !.has_numbers = TRUE],
                 [Piece(40, {"paper", "y"}) EXCEPT !.proper_nouns = 2],
                 Piece(19, {"algorithm", "z"}),
                 Piece(501, {"algorithm", "long"})} IN
    {<<>>} \cup {<<p>> : p \in pool} \cup {<<p, q>> : p, q \in pool}
ExtractTexts ==
    {[i \in 1..n |-> Distinct(i)] \o tail : n \in 0..MaxSentences, tail \in Tails}
Projects == {"icm"}

\* Inputs of the calls made with identifiers that are and are not stored.
AbsentMemories ==
    [id : {"m1", "m2"}, topic : {"ta"}, summary : {"s1"}, keywords : {<<>>},
     importance : {"medium"}, weight : {WUnit}, access_count : {0}]
AbsentConcepts == {c \in CascadeConcepts : c.id \in {"c1", "c2"} /\ c.memoir_id = "p1"}

\* Inputs of the graph traversal: four concepts of one memoir and at most
\* MaxLinks links among them, each link named after its endpoints.
HoodConceptIds == {"a", "b", "c", "d"}
HoodConcepts ==
    {[id |-> i, memoir_id |-> "p1", name |-> i, definition |-> "d1", labels |-> <<>>,
      confidence |-> Half32, revision |-> 1, created_at |-> 0, updated_at |-> 0,
      source_memory_ids |-> <<>>] : i \in HoodConceptIds}
\* A chain a-b-c-d, a cycle a-b-c, a cycle through all four and the
\* anti-parallel pair between a and b can be built from these.
HoodEdges ==
    {<<"a", "b">>, <<"b", "a">>, <<"b", "c">>, <<"c", "a">>, <<"c", "d">>, <<"d", "a">>}
HoodLinks ==
    {[id |-> s \o t, source_id |-> s, target_id |-> t, relation |-> "DependsOn",
      weight |-> One32, created_at |-> 0] : <<s, t>> \in HoodEdges}
Depths == 0..MaxDepth
\* A depth no path of a graph of the model reaches.
HugeDepth == 2 ^ 30
DeepDepths == {0, MaxDepth, HugeDepth}
\* Inputs of the two concurrent refinements.
RefinedConcepts == {c \in ConceptInputs : c.source_memory_ids = <<>>}
ConcurrentSources == {<<"m1">>, <<"m2", "m1">>}

----------------------------------------------------------------------------
(* Results of a call: the operation, its arguments and what it returned *)

NoArgs ==
    [id |-> "", topic |-> "", num |-> 0, den |-> 1, text |-> "", ids |-> <<>>,
     memoir_id |-> "", path |-> "", found |-> {}, failed |-> {}]
ArgId(id) == [NoArgs EXCEPT !.id = id]
ArgTopic(topic, id) == [NoArgs EXCEPT !.topic = topic, !.id = id]
ArgNum(num, den) == [NoArgs EXCEPT !.num = num, !.den = den]
ArgRefine(id, text, ids) == [NoArgs EXCEPT !.id = id, !.text = text, !.ids = ids]
ArgMemoir(memoir) == [NoArgs EXCEPT !.id = memoir.id, !.text = memoir.name]
ArgConcept(concept) ==
    [NoArgs EXCEPT !.id = concept.id, !.memoir_id = concept.memoir_id,
                   !.text = concept.name]
ArgLink(link) ==
    [NoArgs EXCEPT !.id = link.id, !.text = link.relation,
                   !.ids = <<link.source_id, link.target_id>>]

Ok(op, args, n) == [op |-> op, args |-> args, kind |-> "Ok", n |-> n]
Err(op, args, kind) == [op |-> op, args |-> args, kind |-> kind, n |-> 0]
NoCall == [op |-> "new", args |-> NoArgs, kind |-> "Ok", n |-> 0]

----------------------------------------------------------------------------
(* MemoryStore: queries *)

Ids(rows) == {r.id : r \in rows}

get(id) == {r \in memories : r.id = id}

get_by_topic(topic) == {r \in memories : r.topic = topic}

count == Cardinality(memories)

----------------------------------------------------------------------------
(* The full-text index of the memories *)

\* The columns of a row that memories_fts indexes.
FtsRow(r) == [id |-> r.id, topic |-> r.topic, summary |-> r.summary,
              keywords |-> r.keywords]

Triggers_insert_delete(old, new, index) ==
    (index \ {FtsRow(r) : r \in {x \in old : x.id \notin Ids(new)}})
        \cup {FtsRow(r) : r \in {x \in new : x.id \notin Ids(old)}}

\* memories_ad, memories_au and memories_ai, fired for the rows a statement
\* deleted, changed and inserted: the old values are taken out of the index,
\* then the new values are put in.
Triggers(old, new, index) ==
    (index \ {FtsRow(r) : r \in old \ new}) \cup {FtsRow(r) : r \in new \ old}

----------------------------------------------------------------------------
(* MemoryStore: operations *)

store(memory) ==
    IF memory.id \in Ids(memories)
    THEN /\ memories' = memories
         /\ ret' = Err("store", ArgId(memory.id), "Database")
    ELSE /\ memories' = memories \cup {memory}
         /\ ret' = Ok("store", ArgId(memory.id), 0)

\* A bug: an UPDATE that changes no row is reported as a success.
update_ignore_missing(memory) ==
    LET changed == {r \in memories : r.id = memory.id} IN
    /\ memories' = IF changed = {} THEN memories ELSE (memories \ changed) \cup {memory}
    /\ ret' = Ok("update", ArgId(memory.id), 0)

update(memory) ==
    LET changed == {r \in memories : r.id = memory.id} IN
    IF changed = {}
    THEN /\ memories' = memories
         /\ ret' = Err("update", ArgId(memory.id), "NotFound")
    ELSE /\ memories' = (memories \ changed) \cup {memory}
         /\ ret' = Ok("update", ArgId(memory.id), 0)

delete(id) ==
    LET changed == {r \in memories : r.id = id} IN
    IF changed = {}
    THEN /\ memories' = memories
         /\ ret' = Err("delete", ArgId(id), "NotFound")
    ELSE /\ memories' = memories \ changed
         /\ ret' = Ok("delete", ArgId(id), 0)

\* A bug: an access restores the weight of the memory.
update_access_reinforces(id) ==
    LET changed == {r \in memories : r.id = id} IN
    IF changed = {}
    THEN /\ memories' = memories
         /\ ret' = Err("update_access", ArgId(id), "NotFound")
    ELSE /\ \A r \in changed : r.access_count < MaxAccess
         /\ memories' = (memories \ changed) \cup
                {[r EXCEPT !.access_count = @ + 1, !.weight = WUnit] : r \in changed}
         /\ ret' = Ok("update_access", ArgId(id), 0)

update_access(id) ==
    LET changed == {r \in memories : r.id = id} IN
    IF changed = {}
    THEN /\ memories' = memories
         /\ ret' = Err("update_access", ArgId(id), "NotFound")
    ELSE /\ \A r \in changed : r.access_count < MaxAccess
         /\ memories' = (memories \ changed) \cup
                {[r EXCEPT !.access_count = @ + 1] : r \in changed}
         /\ ret' = Ok("update_access", ArgId(id), 0)

\* A bug: SET weight = ?1 instead of SET weight = weight * ?1.
Scaled_assigned(weight, decay_factor) == (WUnit * decay_factor.num) \div decay_factor.den

\* weight * ?1
Scaled(weight, decay_factor) == (weight * decay_factor.num) \div decay_factor.den

Representable(weight, decay_factor) == (weight * decay_factor.num) % decay_factor.den = 0

\* A bug: the WHERE importance != 'critical' clause is missing.
apply_decay_all(decay_factor) ==
    LET changed == memories IN
    /\ \A r \in changed : Representable(r.weight, decay_factor)
    /\ memories' = (memories \ changed) \cup
            {[r EXCEPT !.weight = Scaled(@, decay_factor)] : r \in changed}
    /\ ret' = Ok("apply_decay", ArgNum(decay_factor.num, decay_factor.den), Cardinality(changed))

apply_decay(decay_factor) ==
    LET changed == {r \in memories : r.importance # "critical"} IN
    /\ \A r \in changed : Representable(r.weight, decay_factor)
    /\ memories' = (memories \ changed) \cup
            {[r EXCEPT !.weight = Scaled(@, decay_factor)] : r \in changed}
    /\ ret' = Ok("apply_decay", ArgNum(decay_factor.num, decay_factor.den), Cardinality(changed))

\* A bug: weight <= ?1 instead of weight < ?1.
prune_inclusive(weight_threshold) ==
    LET changed == {r \in memories :
                       r.weight <= weight_threshold /\ r.importance # "critical"} IN
    /\ memories' = memories \ changed
    /\ ret' = Ok("prune", ArgNum(weight_threshold, WUnit), Cardinality(changed))

prune(weight_threshold) ==
    LET changed == {r \in memories :
                       r.weight < weight_threshold /\ r.importance # "critical"} IN
    /\ memories' = memories \ changed
    /\ ret' = Ok("prune", ArgNum(weight_threshold, WUnit), Cardinality(changed))

\* A bug: the DELETE matches every topic.
consolidate_topic_delete_all(topic, consolidated) ==
    /\ memories' = {consolidated}
    /\ ret' = Ok("consolidate_topic", ArgTopic(topic, consolidated.id), 0)

\* DELETE FROM memories WHERE topic = ?1, then store(consolidated), each in
\* its own implicit transaction; an error of store is returned after the
\* DELETE has been committed.
consolidate_topic(topic, consolidated) ==
    LET kept == {r \in memories : r.topic # topic} IN
    IF consolidated.id \in Ids(kept)
    THEN /\ memories' = kept
         /\ ret' = Err("consolidate_topic", ArgTopic(topic, consolidated.id), "Database")
    ELSE /\ memories' = kept \cup {consolidated}
         /\ ret' = Ok("consolidate_topic", ArgTopic(topic, consolidated.id), 0)

----------------------------------------------------------------------------
(* Searches of the memory store *)

Min(a, b) == IF a <= b THEN a ELSE b

\* LIMIT ?: a negative limit means no limit.
Rows(limit, n) == IF limit < 0 THEN n ELSE Min(limit, n)

\* ORDER BY weight DESC LIMIT ?: the possible results; rows of equal weight
\* come in an order the engine chooses.
TopK(rows, limit) ==
    {T \in SUBSET rows :
        /\ Cardinality(T) = Rows(limit, Cardinality(rows))
        /\ \A a \in T, b \in rows \ T : a.weight >= b.weight}

\* The columns of memories_fts; each string of the model is one token.
FtsTokens(r) ==
    {r.id, r.topic, r.summary} \cup {r.keywords[i] : i \in DOMAIN r.keywords}

\* A query the FTS5 query parser rejects.
FtsSyntaxError(query) == query = "a-b"

\* SELECT id FROM memories_fts WHERE memories_fts MATCH ?1
FtsMatch(query) == {e.id : e \in {x \in fts : query \in FtsTokens(x)}}

search_fts(query, limit) == TopK({r \in memories : r.id \in FtsMatch(query)}, limit)

\* value LIKE '%k%'
Like(value, k) == k = value \/ (k = "s" /\ value \in Summaries)

search_by_keywords(keywords, limit) ==
    IF keywords = {}
    THEN {{}}
    ELSE TopK({r \in memories :
                  \E k \in keywords :
                     \/ \E i \in DOMAIN r.keywords : Like(r.keywords[i], k)
                     \/ Like(r.summary, k)
                     \/ Like(r.topic, k)},
              limit)

\* The fused lexical and vector search: at most limit stored memories.
search_hybrid(query, limit) ==
    {T \in SUBSET memories : Cardinality(T) <= Rows(limit, Cardinality(memories))}

----------------------------------------------------------------------------
(* Tool dispatcher: the memory tools *)

ToolText(op, args, n) == [op |-> op, args |-> args, kind |-> "Ok", n |-> n]
ToolError(op, args) == [op |-> op, args |-> args, kind |-> "isError", n |-> 0]
\* ToolResult::error("missing required field: <field>")
MissingField(field) == [NoArgs EXCEPT !.text = "missing required field: " \o field]
\* args.get(key).and_then(|v| v.as_i64()).unwrap_or(default)
get_i64(value, default) == IF value.kind = "integer" THEN value.n ELSE default

\* importance_str.parse().unwrap_or(Importance::Medium), "medium" when absent
ParseImportance(importance) ==
    IF importance \in Importances THEN importance ELSE "medium"

\* Memory::new draws an identifier no stored memory has.
FreshIds == MemIds \ Ids(memories)

\* The store is filled up to one identifier short of the pool, so that a
\* fresh one is always left.
MaxStored == Cardinality(MemIds) - 1

tool_store(topic, content, importance) ==
    IF topic = Missing
    THEN /\ memories' = memories
         /\ ret' = ToolError("icm_store", MissingField("topic"))
    ELSE IF content = Missing
    THEN /\ memories' = memories
         /\ ret' = ToolError("icm_store", MissingField("content"))
    ELSE /\ Cardinality(memories) < MaxStored
         /\ \E id \in FreshIds :
              LET memory == [id |-> id, topic |-> topic, summary |-> content,
                             keywords |-> <<>>,
                             importance |-> ParseImportance(importance),
                             weight |-> WUnit, access_count |-> 0] IN
              /\ memories' = memories \cup {memory}
              /\ ret' = ToolText("icm_store", ArgId(id), 0)

\* What a call of icm_recall was given, the search whose rows it took, the
\* memories its text lists and those whose update_access returned an error.
ArgRecall(query, topic, limit, path, results, failed) ==
    [NoArgs EXCEPT !.text = query, !.topic = topic, !.num = limit, !.path = path,
                   !.found = Ids(results), !.failed = Ids(failed)]

\* A bug: the first update_access that fails ends the loop.
Recalled_first_failure_stops(results, query, topic, limit, path) ==
    \E failed \in SUBSET results :
       /\ \A r \in results \ failed : r.access_count < MaxAccess
       /\ memories' = IF failed # {}
                      THEN memories
                      ELSE (memories \ results) \cup
                              {[r EXCEPT !.access_count = @ + 1] : r \in results}
       /\ ret' = ToolText("icm_recall",
                          ArgRecall(query, topic, limit, path, results, failed),
                          Cardinality(results))

\* The end of icm_recall: the access of every memory returned is recorded,
\* one UPDATE for each; the result of update_access is dropped, so an
\* UPDATE the engine refuses leaves its row as it was and the loop goes on.
Recalled(results, query, topic, limit, path) ==
    \E failed \in SUBSET results :
       /\ \A r \in results \ failed : r.access_count < MaxAccess
       /\ memories' = (memories \ (results \ failed)) \cup
               {[r EXCEPT !.access_count = @ + 1] : r \in results \ failed}
       /\ ret' = ToolText("icm_recall",
                          ArgRecall(query, topic, limit, path, results, failed),
                          Cardinality(results))

\* A bug: the keyword search when the topic filter left nothing of the
\* rows of the FTS search.
tool_recall_filter_first(query, topic, limit) ==
    LET Filter(T) == IF topic = Missing THEN T ELSE {r \in T : r.topic = topic} IN
    IF query = Missing
    THEN /\ memories' = memories
         /\ ret' = ToolError("icm_recall", MissingField("query"))
    ELSE \/ /\ embedder
            /\ \E results \in search_hybrid(query, limit) :
                  Recalled(Filter(results), query, topic, limit, "hybrid")
         \/ IF FtsSyntaxError(query)
            THEN /\ memories' = memories
                 /\ ret' = ToolError("icm_recall", ArgTopic(topic, ""))
            ELSE \E F \in search_fts(query, limit) :
                    IF Filter(F) # {}
                    THEN Recalled(Filter(F), query, topic, limit, "fts")
                    ELSE \E K \in search_by_keywords({query}, limit) :
                            Recalled(Filter(K), query, topic, limit, "keywords")

\* The hybrid search when there is an embedder and both the embedding and
\* the search succeed; else the FTS search and, when that finds nothing, the
\* keyword search; then the topic filter.
tool_recall(query, topic, limit) ==
    LET Filter(T) == IF topic = Missing THEN T ELSE {r \in T : r.topic = topic} IN
    IF query = Missing
    THEN /\ memories' = memories
         /\ ret' = ToolError("icm_recall", MissingField("query"))
    ELSE \/ /\ embedder
            /\ \E results \in search_hybrid(query, limit) :
                  Recalled(Filter(results), query, topic, limit, "hybrid")
         \/ IF FtsSyntaxError(query)
            THEN /\ memories' = memories
                 /\ ret' = ToolError("icm_recall", ArgTopic(topic, ""))
            ELSE \E F \in search_fts(query, limit) :
                    IF F # {}
                    THEN Recalled(Filter(F), query, topic, limit, "fts")
                    ELSE \E K \in search_by_keywords({query}, limit) :
                            Recalled(Filter(K), query, topic, limit, "keywords")

tool_forget(id) ==
    IF id = Missing
    THEN /\ memories' = memories
         /\ ret' = ToolError("icm_forget", MissingField("id"))
    ELSE IF id \notin Ids(memories)
    THEN /\ memories' = memories
         /\ ret' = ToolError("icm_forget", ArgId(id))
    ELSE /\ memories' = {r \in memories : r.id # id}
         /\ ret' = ToolText("icm_forget", ArgId(id), 0)

\* A bug: the memories of the topic are deleted before the summary is read.
tool_consolidate_delete_first(topic, summary) ==
    IF topic = Missing
    THEN /\ memories' = memories
         /\ ret' = ToolError("icm_consolidate", MissingField("topic"))
    ELSE IF summary = Missing
    THEN /\ memories' = {r \in memories : r.topic # topic}
         /\ ret' = ToolError("icm_consolidate", MissingField("summary"))
    ELSE \E id \in FreshIds :
            LET consolidated == [id |-> id, topic |-> topic, summary |-> summary,
                                 keywords |-> <<>>,
                                 importance |-> "high", weight |-> WUnit,
                                 access_count |-> 0] IN
            /\ memories' = {r \in memories : r.topic # topic} \cup {consolidated}
            /\ ret' = ToolText("icm_consolidate", ArgTopic(topic, id), 0)

tool_consolidate(topic, summary) ==
    IF topic = Missing
    THEN /\ memories' = memories
         /\ ret' = ToolError("icm_consolidate", MissingField("topic"))
    ELSE IF summary = Missing
    THEN /\ memories' = memories
         /\ ret' = ToolError("icm_consolidate", MissingField("summary"))
    ELSE \E id \in FreshIds :
            LET consolidated == [id |-> id, topic |-> topic, summary |-> summary,
                                 keywords |-> <<>>,
                                 importance |-> "high", weight |-> WUnit,
                                 access_count |-> 0] IN
            /\ memories' = {r \in memories : r.topic # topic} \cup {consolidated}
            /\ ret' = ToolText("icm_consolidate", ArgTopic(topic, id), 0)

\* A bug: listing the topics counts as an access of every memory.
tool_list_topics_records_access ==
    /\ memories' = {[r EXCEPT !.access_count = @ + 1] : r \in memories}
    /\ ret' = ToolText("icm_list_topics", NoArgs,
                       Cardinality({r.topic : r \in memories}))

tool_list_topics ==
    /\ memories' = memories
    /\ ret' = ToolText("icm_list_topics", NoArgs,
                       Cardinality({r.topic : r \in memories}))

tool_stats ==
    /\ memories' = memories
    /\ ret' = ToolText("icm_stats", NoArgs, Cardinality(memories))

\* Every memory read back has no embedding; each one whose text embeds is
\* written back by update with the values just read.
tool_embed_all(topic) ==
    IF ~embedder
    THEN /\ memories' = memories
         /\ ret' = ToolError("icm_embed_all", NoArgs)
    ELSE LET to_embed == IF topic = Missing THEN memories ELSE get_by_topic(topic) IN
         \E embedded \in SUBSET to_embed :
            /\ memories' = (memories \ embedded) \cup embedded
            /\ ret' = ToolText("icm_embed_all", ArgTopic(topic, ""), Cardinality(embedded))

----------------------------------------------------------------------------
(* MemoirStore: memoirs and concepts *)

create_memoir(memoir) ==
    IF memoir.id \in Ids(memoirs) \/ memoir.name \in {m.name : m \in memoirs}
    THEN /\ memoirs' = memoirs
         /\ ret' = Err("create_memoir", ArgMemoir(memoir), "Database")
    ELSE /\ memoirs' = memoirs \cup {memoir}
         /\ ret' = Ok("create_memoir", ArgMemoir(memoir), 0)

get_concept(id) == {c \in concepts : c.id = id}

add_concept_any_name(concept) ==
    IF concept.id \in Ids(concepts) \/ concept.memoir_id \notin Ids(memoirs)
    THEN /\ concepts' = concepts
         /\ ret' = Err("add_concept", ArgConcept(concept), "Database")
    ELSE /\ concepts' = concepts \cup {concept}
         /\ ret' = Ok("add_concept", ArgConcept(concept), 0)

\* PRIMARY KEY (id), UNIQUE (memoir_id, name), memoir_id REFERENCES memoirs
add_concept(concept) ==
    IF \/ concept.id \in Ids(concepts)
       \/ \E c \in concepts : c.memoir_id = concept.memoir_id /\ c.name = concept.name
       \/ concept.memoir_id \notin Ids(memoirs)
    THEN /\ concepts' = concepts
         /\ ret' = Err("add_concept", ArgConcept(concept), "Database")
    ELSE /\ concepts' = concepts \cup {concept}
         /\ ret' = Ok("add_concept", ArgConcept(concept), 0)

\* concept_links.source_id and target_id REFERENCES concepts ON DELETE CASCADE
LinksOf(ids) == {l \in links : l.source_id \in ids \/ l.target_id \in ids}

delete_concept_keep_links(id) ==
    IF get_concept(id) = {}
    THEN /\ concepts' = concepts
         /\ links' = links
         /\ ret' = Err("delete_concept", ArgId(id), "NotFound")
    ELSE /\ concepts' = concepts \ get_concept(id)
         /\ links' = links
         /\ ret' = Ok("delete_concept", ArgId(id), 0)

delete_concept(id) ==
    IF get_concept(id) = {}
    THEN /\ concepts' = concepts
         /\ links' = links
         /\ ret' = Err("delete_concept", ArgId(id), "NotFound")
    ELSE /\ concepts' = concepts \ get_concept(id)
         /\ links' = links \ LinksOf({id})
         /\ ret' = Ok("delete_concept", ArgId(id), 0)

update_memoir_any_name(memoir) ==
    IF memoir.id \notin Ids(memoirs)
    THEN /\ memoirs' = memoirs
         /\ ret' = Err("update_memoir", ArgMemoir(memoir), "NotFound")
    ELSE /\ memoirs' = {IF m.id = memoir.id THEN [m EXCEPT !.name = memoir.name] ELSE m :
                           m \in memoirs}
         /\ ret' = Ok("update_memoir", ArgMemoir(memoir), 0)

\* name TEXT NOT NULL UNIQUE; an UPDATE that matches no row changes nothing.
update_memoir(memoir) ==
    IF memoir.id \notin Ids(memoirs)
    THEN /\ memoirs' = memoirs
         /\ ret' = Err("update_memoir", ArgMemoir(memoir), "NotFound")
    ELSE IF \E m \in memoirs : m.id # memoir.id /\ m.name = memoir.name
    THEN /\ memoirs' = memoirs
         /\ ret' = Err("update_memoir", ArgMemoir(memoir), "Database")
    ELSE /\ memoirs' = {IF m.id = memoir.id THEN [m EXCEPT !.name = memoir.name] ELSE m :
                           m \in memoirs}
         /\ ret' = Ok("update_memoir", ArgMemoir(memoir), 0)

delete_memoir_keep_links(id) ==
    IF id \notin Ids(memoirs)
    THEN /\ UNCHANGED <<memoirs, concepts, links>>
         /\ ret' = Err("delete_memoir", ArgId(id), "NotFound")
    ELSE /\ memoirs' = {m \in memoirs : m.id # id}
         /\ concepts' = {c \in concepts : c.memoir_id # id}
         /\ links' = links
         /\ ret' = Ok("delete_memoir", ArgId(id), 0)

\* One DELETE statement: the concepts of the memoir go with it
\* (concepts.memoir_id ON DELETE CASCADE), and with them their links.
delete_memoir(id) ==
    IF id \notin Ids(memoirs)
    THEN /\ UNCHANGED <<memoirs, concepts, links>>
         /\ ret' = Err("delete_memoir", ArgId(id), "NotFound")
    ELSE LET owned == {c \in concepts : c.memoir_id = id} IN
         /\ memoirs' = {m \in memoirs : m.id # id}
         /\ concepts' = concepts \ owned
         /\ links' = links \ LinksOf(Ids(owned))
         /\ ret' = Ok("delete_memoir", ArgId(id), 0)

\* UPDATE concepts SET memoir_id, name, definition, labels, confidence,
\* revision, updated_at, source_memory_ids WHERE id = ?1
update_concept(concept) ==
    IF concept.id \notin Ids(concepts)
    THEN /\ concepts' = concepts
         /\ ret' = Err("update_concept", ArgConcept(concept), "NotFound")
    ELSE IF \/ concept.memoir_id \notin Ids(memoirs)
            \/ \E c \in concepts : /\ c.id # concept.id
                                   /\ c.memoir_id = concept.memoir_id
                                   /\ c.name = concept.name
    THEN /\ concepts' = concepts
         /\ ret' = Err("update_concept", ArgConcept(concept), "Database")
    ELSE /\ concepts' = {IF c.id = concept.id
                         THEN [concept EXCEPT !.created_at = c.created_at]
                         ELSE c : c \in concepts}
         /\ ret' = Ok("update_concept", ArgConcept(concept), 0)

\* impl Display for Relation
RelationToString(relation) ==
    CASE relation = "PartOf" -> "part_of"
      [] relation = "DependsOn" -> "depends_on"
      [] relation = "RelatedTo" -> "related_to"

\* relation_str.parse().unwrap_or(Relation::RelatedTo)
ParseRelation(relation_str) ==
    CASE relation_str \in {"part_of", "partof"} -> "PartOf"
      [] relation_str \in {"depends_on", "dependson"} -> "DependsOn"
      [] OTHER -> "RelatedTo"

\* The row of concept_links a ConceptLink is written to.
LinkRow(link) == [link EXCEPT !.relation = RelationToString(link.relation)]

add_link_unchecked(link) ==
    IF \/ link.id \in Ids(links)
       \/ link.source_id \notin Ids(concepts)
       \/ link.target_id \notin Ids(concepts)
       \/ \E l \in links : /\ l.source_id = link.source_id
                           /\ l.target_id = link.target_id
                           /\ l.relation = RelationToString(link.relation)
    THEN /\ links' = links
         /\ ret' = Err("add_link", ArgLink(link), "Database")
    ELSE /\ links' = links \cup {LinkRow(link)}
         /\ ret' = Ok("add_link", ArgLink(link), 0)

add_link_any_triple(link) ==
    IF \/ link.id \in Ids(links)
       \/ link.source_id = link.target_id
       \/ link.source_id \notin Ids(concepts)
       \/ link.target_id \notin Ids(concepts)
    THEN /\ links' = links
         /\ ret' = Err("add_link", ArgLink(link), "Database")
    ELSE /\ links' = links \cup {LinkRow(link)}
         /\ ret' = Ok("add_link", ArgLink(link), 0)

\* PRIMARY KEY (id), source_id and target_id REFERENCES concepts,
\* UNIQUE (source_id, target_id, relation), CHECK (source_id != target_id)
add_link(link) ==
    IF \/ link.id \in Ids(links)
       \/ link.source_id = link.target_id
       \/ link.source_id \notin Ids(concepts)
       \/ link.target_id \notin Ids(concepts)
       \/ \E l \in links : /\ l.source_id = link.source_id
                           /\ l.target_id = link.target_id
                           /\ l.relation = RelationToString(link.relation)
    THEN /\ links' = links
         /\ ret' = Err("add_link", ArgLink(link), "Database")
    ELSE /\ links' = links \cup {LinkRow(link)}
         /\ ret' = Ok("add_link", ArgLink(link), 0)

delete_link(id) ==
    IF id \notin Ids(links)
    THEN /\ links' = links
         /\ ret' = Err("delete_link", ArgId(id), "NotFound")
    ELSE /\ links' = {l \in links : l.id # id}
         /\ ret' = Ok("delete_link", ArgId(id), 0)

Contains(seq, x) == \E i \in 1..Len(seq) : seq[i] = x

MergeSources_append(merged_sources, new_source_ids) ==
    merged_sources \o new_source_ids

\* for sid in new_source_ids { if !merged_sources.contains(sid) { push } }
RECURSIVE MergeSources(_, _)
MergeSources(merged_sources, new_source_ids) ==
    IF new_source_ids = <<>>
    THEN merged_sources
    ELSE MergeSources(IF Contains(merged_sources, Head(new_source_ids))
                      THEN merged_sources
                      ELSE Append(merged_sources, Head(new_source_ids)),
                      Tail(new_source_ids))

\* Round n / step to the nearest integer, ties to even.
RoundNearestEven(n, step) ==
    LET q == n \div step
        r == n % step IN
    IF 2 * r < step THEN q
    ELSE IF 2 * r > step THEN q + 1
    ELSE IF q % 2 = 0 THEN q ELSE q + 1

\* confidence + 0.1 in f32, for 0.5 <= confidence < 2: the exact sum in units
\* of 2^-27 rounded to the f32 grid of its binade.
AddTenth(confidence) ==
    LET exact == 8 * confidence + Tenth IN
    IF exact < 8 * One32
    THEN RoundNearestEven(exact, 8)
    ELSE 2 * RoundNearestEven(exact, 16)

\* (concept.confidence + 0.1).min(1.0)
NewConfidence(confidence) == Min(AddTenth(confidence), One32)

\* UPDATE concepts SET definition, revision = revision + 1, confidence,
\* updated_at, source_memory_ids WHERE id = ?1
RefineUpdate(id, new_definition, new_confidence, now, merged_sources) ==
    {IF c.id = id
     THEN [c EXCEPT !.definition = new_definition,
                    !.revision = @ + 1,
                    !.confidence = new_confidence,
                    !.updated_at = now,
                    !.source_memory_ids = merged_sources]
     ELSE c : c \in concepts}

refine_concept(id, new_definition, new_source_ids, now) ==
    IF get_concept(id) = {}
    THEN /\ concepts' = concepts
         /\ ret' = Err("refine_concept", ArgId(id), "NotFound")
    ELSE LET concept == CHOOSE c \in concepts : c.id = id IN
         /\ concept.revision < MaxRevision
         /\ concepts' = RefineUpdate(id, new_definition,
                            NewConfidence(concept.confidence), now,
                            MergeSources(concept.source_memory_ids, new_source_ids))
         /\ ret' = Ok("refine_concept", ArgRefine(id, new_definition, new_source_ids), 0)

----------------------------------------------------------------------------
(* icm_memoir_link *)

\* impl FromStr for Relation, for the relations and spellings of the inputs
FromStrRelation(s) ==
    CASE s \in {"part_of", "partof"} -> "PartOf"
      [] s \in {"depends_on", "dependson"} -> "DependsOn"
      [] s \in {"related_to", "relatedto"} -> "RelatedTo"
      [] OTHER -> "Err"

get_memoir_by_name(name) == {m \in memoirs : m.name = name}

get_concept_by_name(memoir_id, name) ==
    {c \in concepts : c.memoir_id = memoir_id /\ c.name = name}

ArgToolLink(memoir_name, from_name, to_name, relation_str, id) ==
    [NoArgs EXCEPT !.topic = memoir_name, !.ids = <<from_name, to_name>>,
                   !.text = relation_str, !.id = id]

\* ConceptLink::new draws an identifier no stored link has.
FreshLinkIds == CascadeLinkIds \ Ids(links)

tool_memoir_link(memoir_name, from_name, to_name, relation_str) ==
    LET args == ArgToolLink(memoir_name, from_name, to_name, relation_str, "")
        failed == /\ links' = links
                  /\ ret' = ToolError("icm_memoir_link", args)
        missing(field) == /\ links' = links
                          /\ ret' = ToolError("icm_memoir_link", MissingField(field)) IN
    IF memoir_name = Missing
    THEN missing("memoir")
    ELSE IF from_name = Missing
    THEN missing("from")
    ELSE IF to_name = Missing
    THEN missing("to")
    ELSE IF relation_str = Missing
    THEN missing("relation")
    ELSE IF FromStrRelation(relation_str) = "Err"
    THEN failed
    ELSE IF get_memoir_by_name(memoir_name) = {}
    THEN failed
    ELSE LET memoir == CHOOSE m \in get_memoir_by_name(memoir_name) : TRUE IN
         IF \/ get_concept_by_name(memoir.id, from_name) = {}
            \/ get_concept_by_name(memoir.id, to_name) = {}
         THEN failed
         ELSE LET from == CHOOSE c \in get_concept_by_name(memoir.id, from_name) : TRUE
                  to == CHOOSE c \in get_concept_by_name(memoir.id, to_name) : TRUE IN
              \E id \in FreshLinkIds :
                 LET link == [id |-> id, source_id |-> from.id, target_id |-> to.id,
                              relation |-> FromStrRelation(relation_str),
                              weight |-> One32, created_at |-> 0] IN
                 IF \/ link.source_id = link.target_id
                    \/ \E l \in links : /\ l.source_id = link.source_id
                                        /\ l.target_id = link.target_id
                                        /\ l.relation = RelationToString(link.relation)
                 THEN failed
                 ELSE /\ links' = links \cup {LinkRow(link)}
                      /\ ret' = ToolText("icm_memoir_link",
                                         ArgToolLink(memoir_name, from_name, to_name,
                                                     relation_str, id), 0)

----------------------------------------------------------------------------

(* Graph traversal *)

\* The result of a traversal: Vec<Concept> and Vec<ConceptLink>.
NoOut == [concepts |-> <<>>, links |-> <<>>]

\* The rows of a query, in the order the engine returns them.
RECURSIVE RowsInOrder(_)
RowsInOrder(rows) ==
    IF rows = {}
    THEN <<>>
    ELSE LET r == CHOOSE x \in rows : TRUE IN <<r>> \o RowsInOrder(rows \ {r})

\* row_to_link
RowToLink(row) == [row EXCEPT !.relation = ParseRelation(row.relation)]

get_links_to_none(concept_id) == <<>>

get_links_from(concept_id) ==
    RowsInOrder({RowToLink(l) : l \in {x \in links : x.source_id = concept_id}})

get_links_to(concept_id) ==
    RowsInOrder({RowToLink(l) : l \in {x \in links : x.target_id = concept_id}})

VisitLink_forget_concept(state, link, other_id, current_depth) ==
    [state EXCEPT !.links = Append(@, link)]

\* One link of the current concept: the concept at its other end is
\* visited, queued and returned when it was not visited yet; the link is
\* returned.
VisitLink(state, link, other_id, current_depth) ==
    LET found == IF other_id \notin state.visited /\ get_concept(other_id) # {}
                 THEN [state EXCEPT
                          !.visited = @ \cup {other_id},
                          !.queue = Append(@, <<other_id, current_depth + 1>>),
                          !.concepts = Append(@, CHOOSE c \in concepts : c.id = other_id)]
                 ELSE state IN
    [found EXCEPT !.links = Append(@, link)]

RECURSIVE VisitOutgoing(_, _, _)
VisitOutgoing(state, outgoing, current_depth) ==
    IF outgoing = <<>>
    THEN state
    ELSE VisitOutgoing(VisitLink(state, Head(outgoing), Head(outgoing).target_id,
                                 current_depth),
                       Tail(outgoing), current_depth)

RECURSIVE VisitIncoming(_, _, _)
VisitIncoming(state, incoming, current_depth) ==
    IF incoming = <<>>
    THEN state
    ELSE VisitIncoming(VisitLink(state, Head(incoming), Head(incoming).source_id,
                                 current_depth),
                       Tail(incoming), current_depth)

\* while let Some((current_id, current_depth)) = queue.pop_front(); pops
\* lists the concept of each turn of the loop.
RECURSIVE Traverse(_, _)
Traverse(state, depth) ==
    IF state.queue = <<>>
    THEN state
    ELSE LET current_id == Head(state.queue)[1]
             current_depth == Head(state.queue)[2]
             popped == [state EXCEPT !.queue = Tail(@), !.pops = Append(@, current_id)] IN
         IF current_depth >= depth
         THEN Traverse(popped, depth)
         ELSE Traverse(VisitIncoming(VisitOutgoing(popped, get_links_from(current_id),
                                                   current_depth),
                                     get_links_to(current_id), current_depth),
                       depth)

ArgDepth(concept_id, depth) == [NoArgs EXCEPT !.id = concept_id, !.num = depth]

\* What a call of get_neighborhood was given and the turns its loop took.
ArgTraversal(concept_id, depth, pops) ==
    [NoArgs EXCEPT !.id = concept_id, !.num = depth, !.ids = pops]

\* A bug: the root is queued without being marked as visited.
get_neighborhood_root_unvisited(concept_id, depth) ==
    IF get_concept(concept_id) = {}
    THEN /\ out' = NoOut
         /\ ret' = Err("get_neighborhood", ArgDepth(concept_id, depth), "NotFound")
    ELSE LET root == CHOOSE c \in concepts : c.id = concept_id
             seed == [visited |-> {}, queue |-> <<<<root.id, 0>>>>,
                      concepts |-> <<root>>, links |-> <<>>, pops |-> <<>>]
             final == Traverse(seed, depth) IN
         /\ out' = [concepts |-> final.concepts, links |-> final.links]
         /\ ret' = Ok("get_neighborhood",
                      ArgTraversal(concept_id, depth, final.pops), 0)

get_neighborhood(concept_id, depth) ==
    IF get_concept(concept_id) = {}
    THEN /\ out' = NoOut
         /\ ret' = Err("get_neighborhood", ArgDepth(concept_id, depth), "NotFound")
    ELSE LET root == CHOOSE c \in concepts : c.id = concept_id
             seed == [visited |-> {root.id}, queue |-> <<<<root.id, 0>>>>,
                      concepts |-> <<root>>, links |-> <<>>, pops |-> <<>>]
             final == Traverse(seed, depth) IN
         /\ out' = [concepts |-> final.concepts, links |-> final.links]
         /\ ret' = Ok("get_neighborhood",
                      ArgTraversal(concept_id, depth, final.pops), 0)

----------------------------------------------------------------------------
(* The memories table, column by column *)

\* impl Display for Importance
ImportanceToString(importance) ==
    CASE importance = "Critical" -> "critical"
      [] importance = "High" -> "high"
      [] importance = "Medium" -> "medium"
      [] importance = "Low" -> "low"

\* importance_str.parse().unwrap_or(Importance::Medium)
FromStrImportance(s) ==
    CASE s = "critical" -> "Critical"
      [] s = "high" -> "High"
      [] s = "medium" -> "Medium"
      [] s = "low" -> "Low"
      [] OTHER -> "Medium"

source_type(source) ==
    CASE source.variant = "ClaudeCode" -> "claude_code"
      [] source.variant = "Conversation" -> "conversation"
      [] source.variant = "Manual" -> "manual"

\* serde_json::to_string of a MemorySource: an object tagged by "type", the
\* variant in snake case.
SourceToJson(source) ==
    CASE source.variant = "ClaudeCode" ->
            [type |-> "claude_code", session_id |-> source.session_id,
             file_path |-> source.file_path]
      [] source.variant = "Conversation" ->
            [type |-> "conversation", thread_id |-> source.thread_id]
      [] source.variant = "Manual" -> [type |-> "manual"]

\* serde_json::from_str::<MemorySource>
SourceFromJson(json) ==
    CASE json.type = "claude_code" ->
            [variant |-> "ClaudeCode", session_id |-> json.session_id,
             file_path |-> json.file_path]
      [] json.type = "conversation" ->
            [variant |-> "Conversation", thread_id |-> json.thread_id]
      [] OTHER -> Manual

source_data(source) ==
    IF source.variant = "Manual" THEN <<>> ELSE <<SourceToJson(source)>>

parse_source(source_type_str, source_data_str) ==
    IF source_type_str = "manual" \/ source_data_str = <<>>
    THEN Manual
    ELSE SourceFromJson(source_data_str[1])

\* serde_json::to_string and from_str of a Vec<String>
StringsToJson(strings) == [array |-> strings]
StringsFromJson(json) == json.array

\* DateTime::to_rfc3339 and parse_from_rfc3339(..).with_timezone(&Utc)
to_rfc3339(instant) == [instant |-> instant, offset |-> "+00:00"]
parse_from_rfc3339(text) == text.instant

\* The row INSERT INTO memories writes: thirteen columns, the embedding
\* column is left NULL.
MemoryRow(memory) ==
    [id |-> memory.id,
     created_at |-> to_rfc3339(memory.created_at),
     last_accessed |-> to_rfc3339(memory.last_accessed),
     access_count |-> memory.access_count,
     weight |-> memory.weight,
     topic |-> memory.topic,
     summary |-> memory.summary,
     raw_excerpt |-> memory.raw_excerpt,
     keywords |-> StringsToJson(memory.keywords),
     importance |-> ImportanceToString(memory.importance),
     source_type |-> source_type(memory.source),
     source_data |-> source_data(memory.source),
     related_ids |-> StringsToJson(memory.related_ids),
     embedding |-> <<>>]

\* A Memory built from the thirteen columns of SELECT_COLS.
row_to_memory(row) ==
    [id |-> row.id,
     created_at |-> parse_from_rfc3339(row.created_at),
     last_accessed |-> parse_from_rfc3339(row.last_accessed),
     access_count |-> row.access_count,
     weight |-> row.weight,
     topic |-> row.topic,
     summary |-> row.summary,
     raw_excerpt |-> row.raw_excerpt,
     keywords |-> StringsFromJson(row.keywords),
     importance |-> FromStrImportance(row.importance),
     source |-> parse_source(row.source_type, row.source_data),
     related_ids |-> StringsFromJson(row.related_ids),
     embedding |-> <<>>]

\* store, on the columns; out is the memory the caller handed over.
store_memory(memory) ==
    IF memory.id \in Ids(memories)
    THEN /\ memories' = memories
         /\ out' = NoOut
         /\ ret' = Err("store", ArgId(memory.id), "Database")
    ELSE /\ memories' = memories \cup {MemoryRow(memory)}
         /\ out' = memory
         /\ ret' = Ok("store", ArgId(memory.id), 0)

\* get, on the columns; out is the memory returned.
get_memory(id) ==
    /\ memories' = memories
    /\ IF get(id) = {}
       THEN /\ out' = NoOut
            /\ ret' = Ok("get", ArgId(id), 0)
       ELSE /\ out' = row_to_memory(CHOOSE r \in memories : r.id = id)
            /\ ret' = Ok("get", ArgId(id), 1)

----------------------------------------------------------------------------

(* Searches as calls *)

ArgQuery(memoir_id, query, limit) ==
    [NoArgs EXCEPT !.memoir_id = memoir_id, !.text = query, !.num = limit]

\* search_fts as a call: out is the set of memories returned.
call_search_fts(query, limit) ==
    IF query = ""
    THEN /\ out' = {}
         /\ ret' = Ok("search_fts", ArgQuery("", query, limit), 0)
    ELSE IF FtsSyntaxError(query)
    THEN /\ out' = {}
         /\ ret' = Err("search_fts", ArgQuery("", query, limit), "Database")
    ELSE \E F \in search_fts(query, limit) :
            /\ out' = F
            /\ ret' = Ok("search_fts", ArgQuery("", query, limit), Cardinality(F))

\* serde_json::to_string of a Vec<Label>: the members of the objects, in
\* the order of the text.
RECURSIVE LabelsJson(_)
LabelsJson(labels) ==
    IF labels = <<>>
    THEN <<>>
    ELSE <<<<"namespace", Head(labels).namespace>>, <<"value", Head(labels).value>>>>
            \o LabelsJson(Tail(labels))

\* The columns of concepts_fts; each string of the model is one token.
ConceptFtsTokens(c) ==
    LET json == LabelsJson(c.labels) IN
    {c.id, c.name, c.definition}
        \cup {json[i][1] : i \in DOMAIN json} \cup {json[i][2] : i \in DOMAIN json}

\* ORDER BY confidence DESC LIMIT ?: the possible results; rows of equal
\* confidence come in an order the engine chooses.
ByConfidence(rows, limit) ==
    LET n == Cardinality(rows) IN
    {SubSeq(s, 1, Rows(limit, n)) :
        s \in {t \in [1..n -> rows] :
                 /\ \A i, j \in 1..n : t[i] = t[j] => i = j
                 /\ \A i, j \in 1..n : i < j => t[i].confidence >= t[j].confidence}}

search_concepts_fts(memoir_id, query, limit) ==
    ByConfidence({c \in concepts :
                     c.memoir_id = memoir_id /\ query \in ConceptFtsTokens(c)}, limit)

\* search_concepts_fts as a call: out is the list of concepts returned.
call_search_concepts_fts(memoir_id, query, limit) ==
    IF query = ""
    THEN /\ out' = <<>>
         /\ ret' = Ok("search_concepts_fts", ArgQuery(memoir_id, query, limit), 0)
    ELSE \E F \in search_concepts_fts(memoir_id, query, limit) :
            /\ out' = F
            /\ ret' = Ok("search_concepts_fts", ArgQuery(memoir_id, query, limit), Len(F))

----------------------------------------------------------------------------

(* Search by label *)

\* labels LIKE '%"namespace":"<namespace>"%"value":"<value>"%' on the JSON
\* text of the labels: a namespace member with that string, and after it a
\* value member with that string.
LabelLike(json, label) ==
    \E i, j \in DOMAIN json :
       /\ i < j
       /\ json[i] = <<"namespace", label.namespace>>
       /\ json[j] = <<"value", label.value>>

search_concepts_by_label(memoir_id, label, limit) ==
    ByConfidence({c \in concepts :
                     c.memoir_id = memoir_id /\ LabelLike(LabelsJson(c.labels), label)},
                 limit)

ArgLabel(memoir_id, label, limit) ==
    [NoArgs EXCEPT !.memoir_id = memoir_id, !.ids = <<label.namespace, label.value>>,
                   !.num = limit]

\* search_concepts_by_label as a call: out is the list of concepts returned.
call_search_concepts_by_label(memoir_id, label, limit) ==
    \E F \in search_concepts_by_label(memoir_id, label, limit) :
       /\ out' = F
       /\ ret' = Ok("search_concepts_by_label", ArgLabel(memoir_id, label, limit), Len(F))

----------------------------------------------------------------------------

(* Tool dispatcher: the memoir tools *)

\* Memoir::new and Concept::new draw identifiers no stored row has.
FreshMemoirIds == GraphMemoirIds \ Ids(memoirs)
FreshConceptIds == CascadeConceptIds \ Ids(concepts)

ArgText(text) == [NoArgs EXCEPT !.text = text]

tool_memoir_create(name) ==
    IF name = Missing
    THEN /\ memoirs' = memoirs
         /\ ret' = ToolError("icm_memoir_create", MissingField("name"))
    ELSE IF get_memoir_by_name(name) # {}
    THEN /\ memoirs' = memoirs
         /\ ret' = ToolError("icm_memoir_create", ArgText(name))
    ELSE \E id \in FreshMemoirIds :
            LET memoir == [id |-> id, name |-> name] IN
            /\ memoirs' = memoirs \cup {memoir}
            /\ ret' = ToolText("icm_memoir_create", ArgMemoir(memoir), 0)

\* list_memoirs, and memoir_stats for each memoir listed
tool_memoir_list == ret' = ToolText("icm_memoir_list", NoArgs, Cardinality(memoirs))

\* resolve_memoir, memoir_stats and list_concepts
tool_memoir_show(name) ==
    IF name = Missing
    THEN ret' = ToolError("icm_memoir_show", MissingField("name"))
    ELSE IF get_memoir_by_name(name) = {}
    THEN ret' = ToolError("icm_memoir_show", ArgText(name))
    ELSE LET memoir == CHOOSE m \in get_memoir_by_name(name) : TRUE IN
         ret' = ToolText("icm_memoir_show", ArgMemoir(memoir),
                         Cardinality({c \in concepts : c.memoir_id = memoir.id}))

tool_memoir_add_concept(memoir_name, name, definition) ==
    LET failed(args) == /\ concepts' = concepts
                        /\ ret' = ToolError("icm_memoir_add_concept", args) IN
    IF memoir_name = Missing
    THEN failed(MissingField("memoir"))
    ELSE IF name = Missing
    THEN failed(MissingField("name"))
    ELSE IF definition = Missing
    THEN failed(MissingField("definition"))
    ELSE IF get_memoir_by_name(memoir_name) = {}
    THEN failed(ArgText(memoir_name))
    ELSE LET memoir == CHOOSE m \in get_memoir_by_name(memoir_name) : TRUE IN
         IF get_concept_by_name(memoir.id, name) # {}
         THEN failed(ArgText(name))
         ELSE \E id \in FreshConceptIds :
                 LET concept == [id |-> id, memoir_id |-> memoir.id, name |-> name,
                                 definition |-> definition, labels |-> <<>>,
                                 confidence |-> Half32, revision |-> 1,
                                 created_at |-> 0, updated_at |-> 0,
                                 source_memory_ids |-> <<>>] IN
                 /\ concepts' = concepts \cup {concept}
                 /\ ret' = ToolText("icm_memoir_add_concept", ArgConcept(concept), 0)

\* refine_concept(&concept.id, definition, &[])
tool_memoir_refine(memoir_name, name, definition) ==
    LET failed(args) == /\ concepts' = concepts
                        /\ ret' = ToolError("icm_memoir_refine", args) IN
    IF memoir_name = Missing
    THEN failed(MissingField("memoir"))
    ELSE IF name = Missing
    THEN failed(MissingField("name"))
    ELSE IF definition = Missing
    THEN failed(MissingField("definition"))
    ELSE IF get_memoir_by_name(memoir_name) = {}
    THEN failed(ArgText(memoir_name))
    ELSE LET memoir == CHOOSE m \in get_memoir_by_name(memoir_name) : TRUE IN
         IF get_concept_by_name(memoir.id, name) = {}
         THEN failed(ArgText(name))
         ELSE LET concept == CHOOSE c \in get_concept_by_name(memoir.id, name) : TRUE IN
              \E now \in Times :
                 /\ concept.revision < MaxRevision
                 /\ concepts' = RefineUpdate(concept.id, definition,
                                    NewConfidence(concept.confidence), now,
                                    MergeSources(concept.source_memory_ids, <<>>))
                 /\ ret' = ToolText("icm_memoir_refine",
                                    ArgRefine(concept.id, definition, <<>>),
                                    concept.revision + 1)

tool_memoir_search(memoir_name, query, limit) ==
    IF memoir_name = Missing
    THEN ret' = ToolError("icm_memoir_search", MissingField("memoir"))
    ELSE IF query = Missing
    THEN ret' = ToolError("icm_memoir_search", MissingField("query"))
    ELSE IF get_memoir_by_name(memoir_name) = {}
    THEN ret' = ToolError("icm_memoir_search", ArgText(memoir_name))
    ELSE LET memoir == CHOOSE m \in get_memoir_by_name(memoir_name) : TRUE IN
         IF query = ""
         THEN ret' = ToolText("icm_memoir_search", ArgQuery(memoir.id, query, limit), 0)
         ELSE IF FtsSyntaxError(query)
         THEN ret' = ToolError("icm_memoir_search", ArgQuery(memoir.id, query, limit))
         ELSE \E results \in search_concepts_fts(memoir.id, query, limit) :
                 ret' = ToolText("icm_memoir_search",
                                 ArgQuery(memoir.id, query, limit), Len(results))

\* get_concept_by_name, then get_neighborhood from the concept found
tool_memoir_inspect(memoir_name, name, depth) ==
    IF memoir_name = Missing
    THEN ret' = ToolError("icm_memoir_inspect", MissingField("memoir"))
    ELSE IF name = Missing
    THEN ret' = ToolError("icm_memoir_inspect", MissingField("name"))
    ELSE IF get_memoir_by_name(memoir_name) = {}
    THEN ret' = ToolError("icm_memoir_inspect", ArgText(memoir_name))
    ELSE LET memoir == CHOOSE m \in get_memoir_by_name(memoir_name) : TRUE IN
         IF get_concept_by_name(memoir.id, name) = {}
         THEN ret' = ToolError("icm_memoir_inspect", ArgText(name))
         ELSE LET root == CHOOSE c \in get_concept_by_name(memoir.id, name) : TRUE
                  seed == [visited |-> {root.id}, queue |-> <<<<root.id, 0>>>>,
                           concepts |-> <<root>>, links |-> <<>>, pops |-> <<>>]
                  final == Traverse(seed, depth) IN
              ret' = ToolText("icm_memoir_inspect", ArgDepth(root.id, depth),
                              Len(final.links))

----------------------------------------------------------------------------

(* The MCP server on stdio *)

\* serde_json::from_str::<JsonRpcMessage>: an error for text that is not
\* JSON and for an object without the required "jsonrpc"; Option<Value>
\* reads both an absent "id" and the JSON null as None.
from_str(line) ==
    IF line.kind # "json" \/ ~line.jsonrpc
    THEN <<>>
    ELSE <<[id |-> IF line.id \in {Missing, "null"} THEN <<>> ELSE <<line.id>>,
            method |-> IF line.method = Missing THEN <<>> ELSE <<line.method>>,
            params |-> line.params]>>

JsonRpcResponse_ok(id, result) == [id |-> id, result |-> <<result>>, error |-> <<>>]
JsonRpcResponse_err(id, code) == [id |-> id, result |-> <<>>, error |-> <<code>>]
method_not_found_invalid_request(id) == JsonRpcResponse_err(id, -32600)
method_not_found(id) == JsonRpcResponse_err(id, -32601)

\* The tool-result envelope: its content is one text, isError is written
\* when true.
ToolResultJson(result) ==
    IF result.kind = "isError" THEN "{content, isError: true}" ELSE "{content}"

tool_definitions_all(has_embedder) == "tools with icm_embed_all"

\* The tools listed: icm_embed_all is pushed last, when there is an embedder.
tool_definitions(has_embedder) ==
    IF has_embedder THEN "tools with icm_embed_all" ELSE "tools"

\* The "required" array of each tool's input schema.
Required(name) ==
    CASE name = "icm_store" -> {"topic", "content"}
      [] name = "icm_recall" -> {"query"}
      [] name = "icm_forget" -> {"id"}
      [] name = "icm_consolidate" -> {"topic", "summary"}
      [] name \in {"icm_memoir_create", "icm_memoir_show"} -> {"name"}
      [] name \in {"icm_memoir_add_concept", "icm_memoir_refine"} ->
            {"memoir", "name", "definition"}
      [] name = "icm_memoir_search" -> {"memoir", "query"}
      [] name = "icm_memoir_link" -> {"memoir", "from", "to", "relation"}
      [] name = "icm_memoir_inspect" -> {"memoir", "name"}
      [] OTHER -> {}

\* The dispatch on the tool's name; the last arm answers every other name.
call_tool(name, args) ==
    CASE name = "icm_store" ->
            /\ tool_store(args.topic, args.content, args.importance)
            /\ UNCHANGED <<memoirs, concepts, links>>
      [] name = "icm_recall" ->
            /\ tool_recall(args.query, args.topic, get_i64(args.limit, DefaultLimit))
            /\ UNCHANGED <<memoirs, concepts, links>>
      [] name = "icm_forget" ->
            tool_forget(args.id) /\ UNCHANGED <<memoirs, concepts, links>>
      [] name = "icm_consolidate" ->
            /\ tool_consolidate(args.topic, args.summary)
            /\ UNCHANGED <<memoirs, concepts, links>>
      [] name = "icm_list_topics" ->
            tool_list_topics /\ UNCHANGED <<memoirs, concepts, links>>
      [] name = "icm_stats" -> tool_stats /\ UNCHANGED <<memoirs, concepts, links>>
      [] name = "icm_embed_all" ->
            tool_embed_all(args.topic) /\ UNCHANGED <<memoirs, concepts, links>>
      [] name = "icm_memoir_create" ->
            tool_memoir_create(args.name) /\ UNCHANGED <<memories, concepts, links>>
      [] name = "icm_memoir_list" ->
            tool_memoir_list /\ UNCHANGED <<memories, memoirs, concepts, links>>
      [] name = "icm_memoir_show" ->
            tool_memoir_show(args.name) /\ UNCHANGED <<memories, memoirs, concepts, links>>
      [] name = "icm_memoir_add_concept" ->
            /\ tool_memoir_add_concept(args.memoir, args.name, args.definition)
            /\ UNCHANGED <<memories, memoirs, links>>
      [] name = "icm_memoir_refine" ->
            /\ tool_memoir_refine(args.memoir, args.name, args.definition)
            /\ UNCHANGED <<memories, memoirs, links>>
      [] name = "icm_memoir_search" ->
            /\ tool_memoir_search(args.memoir, args.query, get_i64(args.limit, 10))
            /\ UNCHANGED <<memories, memoirs, concepts, links>>
      [] name = "icm_memoir_link" ->
            /\ tool_memoir_link(args.memoir, args.from, args.to, args.relation)
            /\ UNCHANGED <<memories, memoirs, concepts>>
      [] name = "icm_memoir_inspect" ->
            /\ tool_memoir_inspect(args.memoir, args.name, get_i64(args.depth, 1))
            /\ UNCHANGED <<memories, memoirs, concepts, links>>
      [] OTHER -> /\ ret' = ToolError(name, ArgText(name))
                  /\ UNCHANGED <<memories, memoirs, concepts, links>>

write_response_first(line, resp) ==
    server' = [server EXCEPT !.stdin = Append(@, line), !.stdout = <<resp>> \o @]

\* One turn of the loop writes at most one line to stdout and flushes it
\* before the next line is read.
write_response(line, resp) ==
    server' = [server EXCEPT !.stdin = Append(@, line), !.stdout = Append(@, resp)]
NoResponse(line) == server' = [server EXCEPT !.stdin = Append(@, line)]
NoToolCalled ==
    /\ ret' = ret
    /\ UNCHANGED <<memories, memoirs, concepts, links>>

\* The writer of stdin closes its end; lines written before may still be
\* waiting to be read.
close_stdin ==
    /\ server.open
    /\ ~server.closed
    /\ server' = [server EXCEPT !.closed = TRUE]
    /\ NoToolCalled

\* A bug: the end of the stream is taken for an empty line.
end_of_input_skipped ==
    /\ server.open
    /\ server.closed
    /\ server' = server
    /\ NoToolCalled

\* stdin.lock().lines() yields None at the end of the stream: the for loop
\* ends and run_server returns.
end_of_input ==
    /\ server.open
    /\ server.closed
    /\ server' = [server EXCEPT !.open = FALSE]
    /\ NoToolCalled

handle_tools_call_unwrap(line, id, params) ==
    IF params = <<>>
    THEN write_response(line, JsonRpcResponse_err(id, -32602)) /\ NoToolCalled
    ELSE IF params[1].name = Missing
    THEN write_response(line, JsonRpcResponse_err(id, -32602)) /\ NoToolCalled
    ELSE /\ call_tool(params[1].name, params[1].arguments)
         /\ write_response(line, IF ret'.kind = "isError"
                                 THEN JsonRpcResponse_err(id, -32000)
                                 ELSE JsonRpcResponse_ok(id, ToolResultJson(ret')))

handle_tools_call(line, id, params) ==
    IF params = <<>>
    THEN write_response(line, JsonRpcResponse_err(id, -32602)) /\ NoToolCalled
    ELSE IF params[1].name = Missing
    THEN write_response(line, JsonRpcResponse_err(id, -32602)) /\ NoToolCalled
    ELSE /\ call_tool(params[1].name, params[1].arguments)
         /\ write_response(line, JsonRpcResponse_ok(id, ToolResultJson(ret')))

\* One turn of the loop of run_server, for the next line of stdin.
run_server(line) ==
    /\ server.open
    /\ Len(server.stdin) < MaxLines
    /\ IF line.kind = "unreadable"
       THEN /\ server' = [server EXCEPT !.stdin = Append(@, line), !.open = FALSE]
            /\ NoToolCalled
       ELSE IF line.kind = "blank"
       THEN NoResponse(line) /\ NoToolCalled
       ELSE IF from_str(line) = <<>>
       THEN write_response(line, JsonRpcResponse_err("null", -32700)) /\ NoToolCalled
       ELSE LET msg == from_str(line)[1]
                method == IF msg.method = <<>> THEN "" ELSE msg.method[1] IN
            IF msg.id = <<>>
            THEN NoResponse(line) /\ NoToolCalled
            ELSE LET id == msg.id[1] IN
                 CASE method = "initialize" ->
                        /\ write_response(line, JsonRpcResponse_ok(id, "initialize"))
                        /\ NoToolCalled
                   [] method = "ping" ->
                        /\ write_response(line, JsonRpcResponse_ok(id, "{}"))
                        /\ NoToolCalled
                   [] method = "tools/list" ->
                        /\ write_response(line, JsonRpcResponse_ok(id,
                               tool_definitions(embedder)))
                        /\ NoToolCalled
                   [] method = "tools/call" -> handle_tools_call(line, id, msg.params)
                   [] OTHER ->
                        /\ write_response(line, method_not_found(id))
                        /\ NoToolCalled

----------------------------------------------------------------------------

(* Fact extraction *)

\* A piece of text between two '.' or '\n': its length in bytes after trim,
\* the set of its whitespace-separated words, whether it has an ASCII digit
\* and how many capitalised words follow its first word.  A word of a
\* keyword list stands for a piece that contains that keyword.
SpecificationWords == {"maximum", "default", "port"}
ArchitectureWords == {"module", "system"}
AlgorithmWords == {"algorithm", "latency"}
DecisionWords == {"because", "chosen"}
PerformanceWords == {"benchmark", "latency"}
EntityWords == {"paper", "team"}
CodeWords == {".rs", "fn", "struct"}

\* The score of a piece, in halves of a point.
Score(s) ==
    (IF s.has_numbers THEN 3 ELSE 0)
      + (IF s.proper_nouns >= 2 THEN 3 ELSE 0)
      + 3 * Cardinality(s.words \cap SpecificationWords)
      + 4 * Cardinality(s.words \cap ArchitectureWords)
      + 6 * Cardinality(s.words \cap AlgorithmWords)
      + 5 * Cardinality(s.words \cap DecisionWords)
      + 4 * Cardinality(s.words \cap PerformanceWords)
      + 2 * Cardinality(s.words \cap EntityWords)
      + (IF s.words \cap CodeWords # {} THEN 2 ELSE 0)

SentenceImportance(s) ==
    IF s.words \cap (AlgorithmWords \cup DecisionWords) # {} THEN "high" ELSE "medium"

\* The pieces of more than 15 bytes, in the order of the text.
split_sentences(text) == SelectSeq(text, LAMBDA s : s.len > 15)

jaccard_similar_never(a, b) == FALSE

\* intersection / union > 0.6, and true when both sets are empty.
jaccard_similar(a, b) ==
    IF a.words \cup b.words = {}
    THEN TRUE
    ELSE 5 * Cardinality(a.words \cap b.words) > 3 * Cardinality(a.words \cup b.words)

\* Vec::truncate
Truncate(seq, n) == SubSeq(seq, 1, Min(n, Len(seq)))

RECURSIVE SortByScore(_)
\* sort_by(|a, b| b.0.partial_cmp(&a.0)): descending, and stable.
SortByScore(scored) ==
    IF scored = <<>>
    THEN <<>>
    ELSE LET x == Head(scored)
             rest == SortByScore(Tail(scored))
             before == SelectSeq(rest, LAMBDA y : Score(y) > Score(x))
             after == SelectSeq(rest, LAMBDA y : Score(y) <= Score(x)) IN
         before \o <<x>> \o after

RECURSIVE Dedup(_, _, _)
\* A piece is kept when no piece kept before it is similar to it.
Dedup(scored, facts, project) ==
    IF scored = <<>>
    THEN facts
    ELSE LET content == Head(scored)
             dominated == \E i \in DOMAIN facts : jaccard_similar(facts[i].content, content) IN
         Dedup(Tail(scored),
               IF dominated
               THEN facts
               ELSE Append(facts, [topic |-> <<"context-", project>>, content |-> content,
                                   importance |-> SentenceImportance(content)]),
               project)

extract_facts(text, project) ==
    LET scored == SelectSeq(split_sentences(text),
                            LAMBDA s : s.len >= 20 /\ s.len <= 500 /\ Score(s) >= 6) IN
    Truncate(Dedup(Truncate(SortByScore(scored), 30), <<>>, project), 20)

\* extract_facts_public, called twice on the text at hand.
extract_facts_public ==
    /\ out' = [out EXCEPT !.facts = extract_facts(out.text, out.project),
                          !.again = extract_facts(out.text, out.project)]
    /\ ret' = [op |-> "extract_facts", args |-> NoArgs, kind |-> "Ok",
               n |-> Len(extract_facts(out.text, out.project))]

----------------------------------------------------------------------------

(* refine_concept statement by statement, on each of two connections to    *)
(* the same database                                                       *)

NoConcept ==
    [id |-> "", memoir_id |-> "", name |-> "", definition |-> "", labels |-> <<>>,
     confidence |-> 0, revision |-> 0, created_at |-> 0, updated_at |-> 0,
     source_memory_ids |-> <<>>]

IdleRefine ==
    [pc |-> "idle", id |-> "", new_definition |-> "", new_source_ids |-> <<>>,
     concept |-> NoConcept]

\* First statement: get_concept; NotFound ends the call.
refine_concept_get(conn, id, new_definition, new_source_ids) ==
    /\ refine[conn].pc = "idle"
    /\ IF get_concept(id) = {}
       THEN /\ refine' = [refine EXCEPT ![conn].pc = "done"]
            /\ ret' = Err("refine_concept", ArgId(id), "NotFound")
       ELSE /\ refine' = [refine EXCEPT ![conn] =
                   [pc |-> "update", id |-> id, new_definition |-> new_definition,
                    new_source_ids |-> new_source_ids,
                    concept |-> CHOOSE c \in concepts : c.id = id]]
            /\ ret' = ret
    /\ UNCHANGED <<memories, fts, conc, embedder, server, memoirs, concepts, links, out>>

\* Second statement: the UPDATE, with the confidence and the source ids
\* computed from the concept the first statement read.
refine_concept_update(conn, now) ==
    LET f == refine[conn] IN
    /\ f.pc = "update"
    /\ concepts' = RefineUpdate(f.id, f.new_definition,
                       NewConfidence(f.concept.confidence), now,
                       MergeSources(f.concept.source_memory_ids, f.new_source_ids))
    /\ refine' = [refine EXCEPT ![conn].pc = "ok"]
    /\ ret' = Ok("refine_concept", ArgRefine(f.id, f.new_definition, f.new_source_ids), 0)
    /\ UNCHANGED <<memories, fts, conc, embedder, server, memoirs, links, out>>

----------------------------------------------------------------------------
(* consolidate_topic on the writer's connection, statement by statement,   *)
(* with a reader on a second connection of the same database               *)

NoMemory ==
    [id |-> "", topic |-> "", summary |-> "", keywords |-> <<>>, importance |-> "",
     weight |-> 0, access_count |-> 0]

Idle == [pc |-> "idle", topic |-> "", consolidated |-> NoMemory, held |-> FALSE]

NoObs == [topic |-> "", rows |-> {}, held |-> FALSE]

\* First statement: DELETE FROM memories WHERE topic = ?1 (autocommit).
consolidate_topic_delete(topic, consolidated) ==
    /\ call.pc = "idle"
    /\ memories' = {r \in memories : r.topic # topic}
    /\ call' = [pc |-> "store", topic |-> topic, consolidated |-> consolidated,
                held |-> (get_by_topic(topic) # {})]
    /\ fts' = Triggers(memories, memories', fts)
    /\ UNCHANGED <<ret, obs, embedder, server, graph>>

\* Second statement: self.store(consolidated)?; Ok(()).
consolidate_topic_store ==
    /\ call.pc = "store"
    /\ IF call.consolidated.id \in Ids(memories)
       THEN /\ memories' = memories
            /\ ret' = Err("consolidate_topic",
                           ArgTopic(call.topic, call.consolidated.id), "Database")
       ELSE /\ memories' = memories \cup {call.consolidated}
            /\ ret' = Ok("consolidate_topic",
                          ArgTopic(call.topic, call.consolidated.id), 0)
    /\ call' = Idle
    /\ fts' = Triggers(memories, memories', fts)
    /\ UNCHANGED <<obs, embedder, server, graph>>

\* The reader's get_by_topic(topic), one SELECT on its own connection; it
\* notes whether a consolidation of that topic, which held a memory when it
\* was called, is in flight.
read_by_topic(topic) ==
    /\ obs' = [topic |-> topic, rows |-> get_by_topic(topic),
               held |-> (call.pc # "idle" /\ call.topic = topic /\ call.held)]
    /\ UNCHANGED <<memories, fts, ret, call, embedder, server, graph>>

----------------------------------------------------------------------------
(* The memory store driven through store, update, delete and               *)
(* consolidate_topic on one connection                                     *)

Init ==
    /\ memories = {}
    /\ fts = {}
    /\ ret = NoCall
    /\ call = Idle
    /\ obs = NoObs
    /\ embedder = FALSE
    /\ memoirs = {}
    /\ concepts = {}
    /\ refine = [c \in Conns |-> IdleRefine]
    /\ links = {}
    /\ out = NoOut
    /\ server = NoServer

Next ==
    /\ \/ \E m \in StoreInputs : store(m)
       \/ \E m \in StoreInputs : update(m)
       \/ \E id \in MemIds : delete(id)
       \/ \E t \in Topics, c \in StoreInputs : consolidate_topic(t, c)
    /\ fts' = Triggers(memories, memories', fts)
    /\ UNCHANGED <<conc, embedder, server, graph>>

Spec == Init /\ [][Next]_vars

----------------------------------------------------------------------------
(* The memory store under decay and pruning *)

NextDecay ==
    /\ \/ \E m \in DecayInputs : store(m)
       \/ \E f \in Factors : apply_decay(f)
       \/ \E t \in Thresholds : prune(t)
    /\ fts' = Triggers(memories, memories', fts)
    /\ UNCHANGED <<conc, embedder, server, graph>>

SpecDecay == Init /\ [][NextDecay]_vars

----------------------------------------------------------------------------
(* Cycles of decay and prune on memories that are retrieved *)

DecayTurn ==
    /\ apply_decay(Half)
    /\ fts' = Triggers(memories, memories', fts)
    /\ UNCHANGED <<conc, embedder, server, graph>>

PruneTurn ==
    /\ \E t \in PositiveThresholds : prune(t)
    /\ fts' = Triggers(memories, memories', fts)
    /\ UNCHANGED <<conc, embedder, server, graph>>

NextForget ==
    \/ DecayTurn
    \/ PruneTurn
    \/ /\ \/ \E m \in ForgetInputs : store(m)
          \/ \E id \in ForgetIds : update_access(id)
          \/ tool_recall("ta", Missing, DefaultLimit)
       /\ fts' = Triggers(memories, memories', fts)
       /\ UNCHANGED <<conc, embedder, server, graph>>

\* The cycles are repeated: a decay that can be applied is applied, and a
\* prune that can remove a memory is run.
SpecForget == Init /\ [][NextForget]_vars /\ WF_vars(DecayTurn) /\ WF_vars(PruneTurn)

----------------------------------------------------------------------------
(* A consolidation interleaved with a reader *)

NextConsolidate ==
    \/ \E m \in WriterInputs :
          /\ call.pc = "idle"
          /\ store(m)
          /\ fts' = Triggers(memories, memories', fts)
          /\ UNCHANGED <<conc, embedder, server, graph>>
    \/ \E t \in Topics, c \in WriterInputs : consolidate_topic_delete(t, c)
    \/ consolidate_topic_store
    \/ \E t \in Topics : read_by_topic(t)

SpecConsolidate == Init /\ [][NextConsolidate]_vars

----------------------------------------------------------------------------
(* The tool server's memory tools, called one after the other *)

InitTools ==
    /\ memories = {}
    /\ fts = {}
    /\ ret = NoCall
    /\ call = Idle
    /\ obs = NoObs
    /\ embedder \in BOOLEAN
    /\ memoirs = {}
    /\ concepts = {}
    /\ refine = [c \in Conns |-> IdleRefine]
    /\ links = {}
    /\ out = NoOut
    /\ server = NoServer

NextTools ==
    /\ \/ \E t \in ToolTopics, c \in ToolContents, i \in ToolImportances : tool_store(t, c, i)
       \/ \E q \in {"ta", Missing}, t \in {"ta", Missing} : tool_recall(q, t, DefaultLimit)
       \/ \E id \in MemIds \cup {Missing} : tool_forget(id)
       \/ \E t \in ToolTopics, c \in ToolContents : tool_consolidate(t, c)
       \/ tool_list_topics
       \/ tool_stats
       \/ \E t \in ToolTopics : tool_embed_all(t)
    /\ fts' = Triggers(memories, memories', fts)
    /\ UNCHANGED <<conc, embedder, server, graph>>

SpecTools == InitTools /\ [][NextTools]_vars

----------------------------------------------------------------------------
(* The concept graph on one connection *)

NextConcept ==
    /\ \/ \E m \in MemoirInputs : create_memoir(m) /\ UNCHANGED <<concepts, links>>
       \/ \E c \in ConceptInputs : add_concept(c) /\ UNCHANGED <<memoirs, links>>
       \/ \E id \in ConceptIds : delete_concept(id) /\ UNCHANGED memoirs
       \/ \E id \in ConceptIds, d \in Definitions, s \in NewSources, now \in Times :
             refine_concept(id, d, s, now) /\ UNCHANGED <<memoirs, links>>
    /\ UNCHANGED <<memories, fts, conc, embedder, server, refine, out>>

SpecConcept == Init /\ [][NextConcept]_vars

----------------------------------------------------------------------------
(* Memoirs and concepts on one connection: names *)

NextNames ==
    /\ \/ \E m \in GraphMemoirs : create_memoir(m) /\ UNCHANGED <<concepts, links>>
       \/ \E m \in GraphMemoirs : update_memoir(m) /\ UNCHANGED <<concepts, links>>
       \/ \E id \in GraphMemoirIds : delete_memoir(id)
       \/ \E c \in NamedConcepts : add_concept(c) /\ UNCHANGED <<memoirs, links>>
       \/ \E c \in NamedConcepts : update_concept(c) /\ UNCHANGED <<memoirs, links>>
       \/ \E id \in NamedConceptIds : delete_concept(id) /\ UNCHANGED memoirs
    /\ UNCHANGED <<memories, fts, conc, embedder, server, refine, out>>

SpecNames == Init /\ [][NextNames]_vars

----------------------------------------------------------------------------
(* Links between the concepts of one memoir *)

NextLinks ==
    /\ \/ \E m \in MemoirInputs : create_memoir(m) /\ UNCHANGED <<concepts, links>>
       \/ \E c \in LinkedConcepts : add_concept(c) /\ UNCHANGED <<memoirs, links>>
       \/ \E l \in GraphLinks : add_link(l) /\ UNCHANGED <<memoirs, concepts>>
       \/ \E id \in LinkIds : delete_link(id) /\ UNCHANGED <<memoirs, concepts>>
    /\ UNCHANGED <<memories, fts, conc, embedder, server, refine, out>>

SpecLinks == Init /\ [][NextLinks]_vars

----------------------------------------------------------------------------
(* Memoirs, concepts and links on one connection: deletions *)

NextCascade ==
    /\ \/ \E m \in CascadeMemoirs : create_memoir(m) /\ UNCHANGED <<concepts, links>>
       \/ \E id \in GraphMemoirIds : delete_memoir(id)
       \/ \E c \in CascadeConcepts : add_concept(c) /\ UNCHANGED <<memoirs, links>>
       \/ \E c \in CascadeConcepts : update_concept(c) /\ UNCHANGED <<memoirs, links>>
       \/ \E id \in CascadeConceptIds : delete_concept(id) /\ UNCHANGED memoirs
       \/ \E l \in CascadeLinks : add_link(l) /\ UNCHANGED <<memoirs, concepts>>
       \/ \E id \in CascadeLinkIds : delete_link(id) /\ UNCHANGED <<memoirs, concepts>>
    /\ UNCHANGED <<memories, fts, conc, embedder, server, refine, out>>

SpecCascade == Init /\ [][NextCascade]_vars

----------------------------------------------------------------------------
(* Links made through the store and through icm_memoir_link *)

NextMemoirLink ==
    /\ \/ \E m \in CascadeMemoirs : create_memoir(m) /\ UNCHANGED <<concepts, links>>
       \/ \E c \in GraphConcepts : add_concept(c) /\ UNCHANGED <<memoirs, links>>
       \/ \E c \in GraphConcepts : update_concept(c) /\ UNCHANGED <<memoirs, links>>
       \/ \E l \in CascadeLinks : add_link(l) /\ UNCHANGED <<memoirs, concepts>>
       \/ \E memoir_name \in ToolMemoirNames, from_name, to_name \in ToolConceptNames,
             relation_str \in ToolRelations :
             /\ FreshLinkIds # {}
             /\ tool_memoir_link(memoir_name, from_name, to_name, relation_str)
             /\ UNCHANGED <<memoirs, concepts>>
    /\ UNCHANGED <<memories, fts, conc, embedder, server, refine, out>>

SpecMemoirLink == Init /\ [][NextMemoirLink]_vars

----------------------------------------------------------------------------

(* store and get of fully formed memories *)

NextRoundTrip ==
    /\ \/ \E memory \in FullMemories : store_memory(memory)
       \/ \E id \in MemIds : get_memory(id)
    /\ fts' = Triggers(memories, memories', fts)
    /\ UNCHANGED <<conc, embedder, server, memoirs, concepts, refine, links>>

SpecRoundTrip == Init /\ [][NextRoundTrip]_vars

----------------------------------------------------------------------------

(* Full-text searches of memories and concepts *)

NextSearch ==
    /\ \/ \E m \in SearchMemories :
             /\ store(m)
             /\ fts' = Triggers(memories, memories', fts)
             /\ UNCHANGED <<memoirs, concepts, out>>
       \/ \E query \in SearchWords, limit \in {1, DefaultLimit} :
             call_search_fts(query, limit) /\ UNCHANGED <<memories, fts, memoirs, concepts>>
       \/ \E m \in MemoirInputs :
             create_memoir(m) /\ UNCHANGED <<memories, fts, concepts, out>>
       \/ \E c \in SearchConcepts :
             add_concept(c) /\ UNCHANGED <<memories, fts, memoirs, out>>
       \/ \E memoir_id \in MemoirIds, query \in ConceptWords, limit \in {1, DefaultLimit} :
             call_search_concepts_fts(memoir_id, query, limit)
                /\ UNCHANGED <<memories, fts, memoirs, concepts>>
    /\ UNCHANGED <<conc, embedder, server, refine, links>>

SpecSearch == Init /\ [][NextSearch]_vars

----------------------------------------------------------------------------

(* The memory store and its full-text index *)

NextFts ==
    /\ \/ \E m \in FtsMemories : store(m) /\ out' = out
       \/ \E m \in FtsMemories : update(m) /\ out' = out
       \/ \E id \in {"m1", "m2"} : delete(id) /\ out' = out
       \/ update_access("m1") /\ out' = out
       \/ apply_decay(Zero) /\ out' = out
       \/ prune(WUnit) /\ out' = out
       \/ \E t \in Topics, c \in {m \in FtsMemories : m.keywords = <<>>} :
             consolidate_topic(t, c) /\ out' = out
       \/ \E query \in FtsWords : call_search_fts(query, 1) /\ memories' = memories
    /\ fts' = Triggers(memories, memories', fts)
    /\ UNCHANGED <<conc, embedder, server, memoirs, concepts, refine, links>>

SpecFts == Init /\ [][NextFts]_vars

----------------------------------------------------------------------------

(* Concepts searched by label *)

NextLabels ==
    /\ \/ \E m \in CascadeMemoirs : create_memoir(m) /\ UNCHANGED <<concepts, out>>
       \/ \E c \in LabelledConcepts : add_concept(c) /\ UNCHANGED <<memoirs, out>>
       \/ \E memoir_id \in GraphMemoirIds, label \in QueryLabels, limit \in {1, DefaultLimit} :
             call_search_concepts_by_label(memoir_id, label, limit)
                /\ UNCHANGED <<memoirs, concepts>>
    /\ UNCHANGED <<memories, fts, conc, embedder, server, refine, links>>

SpecLabels == Init /\ [][NextLabels]_vars

----------------------------------------------------------------------------

(* The MCP server reading its requests from stdin *)

\* The server is started on a database that holds one memoir with two
\* concepts and no memory.
InitServer ==
    /\ memories = {}
    /\ fts = {}
    /\ ret = NoCall
    /\ call = Idle
    /\ obs = NoObs
    /\ embedder \in BOOLEAN
    /\ memoirs = {[id |-> "p1", name |-> "proj"]}
    /\ concepts = {c \in CascadeConcepts : c.memoir_id = "p1" /\ c.id \in {"c1", "c2"}}
    /\ refine = [c \in Conns |-> IdleRefine]
    /\ links = {}
    /\ out = NoOut
    /\ server = NoServer

NextServer ==
    /\ \E line \in ServerLines : run_server(line)
    /\ fts' = Triggers(memories, memories', fts)
    /\ UNCHANGED <<conc, embedder, refine, out>>

SpecServer == InitServer /\ [][NextServer]_vars

----------------------------------------------------------------------------

(* Every tool called through the server *)

\* The server is started on a database that holds one memory, one memoir and
\* two concepts of it joined by a link.
InitDispatch ==
    /\ memories = {[id |-> "m1", topic |-> "ta", summary |-> "s1", keywords |-> <<>>,
                    importance |-> "medium", weight |-> WUnit, access_count |-> 0]}
    /\ fts = {FtsRow(r) : r \in memories}
    /\ ret = NoCall
    /\ call = Idle
    /\ obs = NoObs
    /\ embedder \in BOOLEAN
    /\ memoirs = {[id |-> "p1", name |-> "proj"]}
    /\ concepts = {c \in SearchConcepts : c.labels = <<>> <=> c.id = "c1"}
    /\ refine = [c \in Conns |-> IdleRefine]
    /\ links = {LinkRow([id |-> "l1", source_id |-> "c1", target_id |-> "c2",
                         relation |-> "PartOf", weight |-> One32, created_at |-> 0])}
    /\ out = NoOut
    /\ server = NoServer

NextDispatch ==
    /\ \E line \in DispatchLines : run_server(line)
    /\ fts' = Triggers(memories, memories', fts)
    /\ UNCHANGED <<conc, embedder, refine, out>>

SpecDispatch == InitDispatch /\ [][NextDispatch]_vars

----------------------------------------------------------------------------

(* The server on a stream that its writer closes *)

\* A turn of the loop: the next line is read and served, or the end of the
\* stream is met.
LoopTurn ==
    /\ \/ \E line \in CloseLines : run_server(line)
       \/ end_of_input
    /\ fts' = Triggers(memories, memories', fts)
    /\ UNCHANGED <<conc, embedder, refine, out>>

NextClose ==
    \/ LoopTurn
    \/ close_stdin /\ UNCHANGED <<fts, conc, embedder, refine, out>>

\* The loop is a thread of its own, blocked only in the read of a line: a
\* turn that can be taken is taken.
SpecClose == InitServer /\ [][NextClose]_vars /\ WF_vars(LoopTurn)

----------------------------------------------------------------------------

(* icm_recall over a store filled through icm_store *)

NextRecall ==
    /\ \/ \E t \in Topics : tool_store(t, "s1", Missing)
       \/ \E q \in Queries \ {Missing}, t \in ToolTopics, l \in Limits \ {-1} :
             tool_recall(q, t, l)
    /\ fts' = Triggers(memories, memories', fts)
    /\ UNCHANGED <<conc, embedder, server, graph>>

SpecRecall == InitTools /\ [][NextRecall]_vars

----------------------------------------------------------------------------

(* icm_recall called with every kind of limit *)

\* The "limit" member of the arguments: absent, no integer, and integers
\* below, at and above the least value the schema advertises.
LimitArguments == {JsonAbsent, JsonString} \cup {JsonInteger(l) : l \in Limits}

NextLimit ==
    /\ \/ /\ \E t \in Topics : tool_store(t, "s1", Missing)
          /\ UNCHANGED <<memoirs, concepts, links>>
       \/ \E q \in {"s", "s1"}, l \in LimitArguments :
             call_tool("icm_recall", [NoArguments EXCEPT !.query = q, !.limit = l])
    /\ fts' = Triggers(memories, memories', fts)
    /\ UNCHANGED <<conc, embedder, server, refine, out>>

SpecLimit == InitTools /\ [][NextLimit]_vars

----------------------------------------------------------------------------

(* The fact extractor applied to a text *)

InitExtract ==
    /\ memories = {}
    /\ fts = {}
    /\ ret = NoCall
    /\ call = Idle
    /\ obs = NoObs
    /\ embedder = FALSE
    /\ memoirs = {}
    /\ concepts = {}
    /\ refine = [c \in Conns |-> IdleRefine]
    /\ links = {}
    /\ out \in [text : ExtractTexts, project : Projects, facts : {<<>>}, again : {<<>>}]
    /\ server = NoServer

NextExtract ==
    /\ extract_facts_public
    /\ UNCHANGED <<memories, fts, conc, embedder, server, memoirs, concepts, refine, links>>

SpecExtract == InitExtract /\ [][NextExtract]_vars

----------------------------------------------------------------------------

(* Calls on identifiers that are not stored *)

\* get as a call: Ok(None) when no row has the id, else Ok(Some(row)).
call_get(id) ==
    /\ memories' = memories
    /\ out' = get(id)
    /\ ret' = Ok("get", ArgId(id), Cardinality(get(id)))

NextAbsent ==
    /\ \/ /\ \/ \E m \in {x \in AbsentMemories : x.id = "m1"} : store(m)
             \/ \E m \in AbsentMemories : update(m)
             \/ \E id \in {"m1", "m2"} : delete(id)
             \/ \E id \in {"m1", "m2"} : update_access(id)
          /\ UNCHANGED <<memoirs, concepts, links, out>>
       \/ /\ \E id \in {"m1", "m2"} : call_get(id)
          /\ UNCHANGED <<memoirs, concepts, links>>
       \/ /\ \/ \E m \in MemoirInputs : create_memoir(m) /\ UNCHANGED <<concepts, links>>
             \/ \E m \in CascadeMemoirs : update_memoir(m) /\ UNCHANGED <<concepts, links>>
             \/ \E id \in GraphMemoirIds : delete_memoir(id)
             \/ \E c \in {x \in AbsentConcepts : x.id = "c1"} :
                   add_concept(c) /\ UNCHANGED <<memoirs, links>>
             \/ \E c \in AbsentConcepts : update_concept(c) /\ UNCHANGED <<memoirs, links>>
             \/ \E id \in {"c1", "c2"} : delete_concept(id) /\ UNCHANGED memoirs
             \/ \E id \in CascadeLinkIds : delete_link(id) /\ UNCHANGED <<memoirs, concepts>>
             \/ \E id \in {"c1", "c2"} :
                   refine_concept(id, "d2", <<>>, 1) /\ UNCHANGED <<memoirs, links>>
          /\ UNCHANGED <<memories, out>>
    /\ fts' = Triggers(memories, memories', fts)
    /\ UNCHANGED <<conc, embedder, server, refine>>

SpecAbsent == Init /\ [][NextAbsent]_vars

----------------------------------------------------------------------------

(* Traversals of a small graph *)

NextNeighborhood ==
    /\ \/ \E m \in MemoirInputs : create_memoir(m) /\ UNCHANGED <<concepts, links, out>>
       \/ \E c \in HoodConcepts : add_concept(c) /\ UNCHANGED <<memoirs, links, out>>
       \/ \E l \in HoodLinks :
             /\ Cardinality(links) < MaxLinks
             /\ add_link(l)
             /\ UNCHANGED <<memoirs, concepts, out>>
       \/ \E id \in HoodConceptIds, depth \in Depths :
             get_neighborhood(id, depth) /\ UNCHANGED <<memoirs, concepts, links>>
    /\ UNCHANGED <<memories, fts, conc, embedder, server, refine>>

SpecNeighborhood == Init /\ [][NextNeighborhood]_vars

\* The same graphs traversed to depths beyond their diameter.
NextDeep ==
    /\ \/ \E m \in MemoirInputs : create_memoir(m) /\ UNCHANGED <<concepts, links, out>>
       \/ \E c \in HoodConcepts : add_concept(c) /\ UNCHANGED <<memoirs, links, out>>
       \/ \E l \in HoodLinks :
             /\ Cardinality(links) < MaxLinks
             /\ add_link(l)
             /\ UNCHANGED <<memoirs, concepts, out>>
       \/ \E id \in HoodConceptIds, depth \in DeepDepths :
             get_neighborhood(id, depth) /\ UNCHANGED <<memoirs, concepts, links>>
    /\ UNCHANGED <<memories, fts, conc, embedder, server, refine>>

SpecDeep == Init /\ [][NextDeep]_vars

----------------------------------------------------------------------------
(* Two connections, each refining a concept once *)

NextRefine ==
    \/ /\ \A conn \in Conns : refine[conn].pc = "idle"
       /\ \/ \E m \in MemoirInputs : create_memoir(m) /\ UNCHANGED <<concepts, links>>
          \/ \E c \in RefinedConcepts : add_concept(c) /\ UNCHANGED <<memoirs, links>>
       /\ UNCHANGED <<memories, fts, conc, embedder, server, refine, out>>
    \/ \E conn \in Conns, id \in ConceptIds, d \in Definitions, s \in ConcurrentSources :
          refine_concept_get(conn, id, d, s)
    \/ \E conn \in Conns, now \in Times : refine_concept_update(conn, now)

SpecRefine == Init /\ [][NextRefine]_vars

----------------------------------------------------------------------------
(* Claims about decay and pruning, checked under SpecDecay *)

NonCritical(rows) == {r \in rows : r.importance # "critical"}

\* The row of rows that has this id (the id is present).
RowOf(rows, id) == CHOOSE r \in rows : r.id = id

\* C1: a memory whose importance is critical survives every apply_decay(f)
\* and prune(t) call, whatever f and t, and keeps its weight (the row stays
\* as it was), so get(id) still returns it.
C1_CriticalSurvivesDecayAndPrune ==
    [][\A r \in memories : r.importance = "critical" => r \in memories']_vars

\* C1 witness: a prune call removed a memory while a critical memory whose
\* weight is below the threshold of that call is still stored.
C1_Witness ==
    /\ ret.op = "prune"
    /\ ret.n >= 1
    /\ \E r \in memories : r.importance = "critical" /\ r.weight < ret.args.num

\* C6: prune(threshold) removes exactly the memories with weight < threshold
\* and importance other than critical, returns how many it removed, and
\* leaves every other memory (one at weight = threshold too) as it was.
C6_PruneExact ==
    [][\A t \in Thresholds : (ret'.op = "prune" /\ prune(t)) =>
          /\ memories' = {r \in memories :
                             ~(r.weight < t /\ r.importance # "critical")}
          /\ ret'.n = Cardinality(memories) - Cardinality(memories')
          /\ \A r \in memories : r.weight = t => r \in memories']_vars

\* C6 witness: prune returned 1 and left both a non-critical memory whose
\* weight equals the threshold and a critical memory below the threshold.
C6_Witness ==
    /\ ret.op = "prune"
    /\ ret.n = 1
    /\ \E r \in memories : r.importance # "critical" /\ r.weight = ret.args.num
    /\ \E r \in memories : r.importance = "critical" /\ r.weight < ret.args.num

\* C7: for a factor f in (0,1], apply_decay(f) sets the weight of every
\* non-critical memory to w*f (at most w), changes no other field, leaves
\* the critical memories as they were, and returns the number of
\* non-critical memories.
C7_DecayExact ==
    [][\A f \in Factors :
          (ret'.op = "apply_decay" /\ apply_decay(f) /\ 0 < f.num /\ f.num <= f.den) =>
          /\ Ids(memories') = Ids(memories)
          /\ Cardinality(memories') = Cardinality(memories)
          /\ \A r \in memories :
                LET q == RowOf(memories', r.id) IN
                IF r.importance = "critical"
                THEN q = r
                ELSE /\ q.weight * f.den = r.weight * f.num
                     /\ q.weight <= r.weight
                     /\ q = [r EXCEPT !.weight = q.weight]
          /\ ret'.n = Cardinality(NonCritical(memories))]_vars

\* C7 witness: a decay by a factor strictly between 0 and 1 has acted on a
\* store that holds a critical memory and a non-critical one, whose weight
\* is now below 1.0.
C7_Witness ==
    /\ ret.op = "apply_decay"
    /\ 0 < ret.args.num /\ ret.args.num < ret.args.den
    /\ ret.n >= 1
    /\ \E r \in memories : r.importance = "critical" /\ r.weight = WUnit
    /\ \E r \in memories : r.importance # "critical" /\ 0 < r.weight /\ r.weight < WUnit

\* What a memory loses in a step.
Loss(r) == r.weight - RowOf(memories', r.id).weight

\* C8: in a decay step with a factor below 1, of two memories with the same
\* prior weight the one of importance high loses less than the one of
\* importance medium, and the one of importance low loses more than the one
\* of importance medium.
C8_DecaySpeedByImportance ==
    [][\A f \in Factors :
          (ret'.op = "apply_decay" /\ apply_decay(f) /\ 0 < f.num /\ f.num < f.den) =>
          \A a, b \in memories :
              (a.weight = b.weight /\ a.weight > 0 /\ b.importance = "medium") =>
              /\ a.importance = "high" => Loss(a) < Loss(b)
              /\ a.importance = "low" => Loss(a) > Loss(b)]_vars

----------------------------------------------------------------------------
(* Claims about consolidation *)

\* C3: while consolidate_topic(t, c) is in flight on a topic that held a
\* memory when it was called, a reader on another connection never sees
\* get_by_topic(t) empty.
C3_ReaderNeverSeesEmptyTopic == obs.held => obs.rows # {}

\* C4: when consolidate_topic(t, c) returns an error, the stored memories
\* are exactly those stored before the call.
C4_ConsolidateAllOrNothing ==
    [][\A t \in Topics, c \in StoreInputs :
          (ret'.op = "consolidate_topic" /\ ret'.kind # "Ok" /\ consolidate_topic(t, c)) =>
          memories' = memories]_vars

\* C5: after consolidate_topic(t, c) with c.topic = t returns Ok,
\* get_by_topic(t) is exactly {c}, and get_by_topic(u) is what it was for
\* every other topic u.
C5_ConsolidateReplacesTopic ==
    [][\A t \in Topics, c \in StoreInputs :
          (ret'.op = "consolidate_topic" /\ ret'.kind = "Ok" /\ c.topic = t
             /\ consolidate_topic(t, c)) =>
          /\ get_by_topic(t)' = {c}
          /\ \A u \in Topics \ {t} : get_by_topic(u)' = get_by_topic(u)]_vars

\* C5 witness: consolidate_topic(t, c) with c.topic = t returned Ok; topic t
\* now holds c alone and another topic still holds two memories.
C5_Witness ==
    /\ ret.op = "consolidate_topic"
    /\ ret.kind = "Ok"
    /\ \E c \in memories :
          /\ c.id = ret.args.id
          /\ c.topic = ret.args.topic
          /\ get_by_topic(c.topic) = {c}
    /\ \E u \in Topics \ {ret.args.topic} : Cardinality(get_by_topic(u)) = 2

----------------------------------------------------------------------------
(* Claims about the tool server *)

\* C2: a memory of importance critical stays in the store through every tool
\* call other than an icm_forget of its id.
C2_CriticalNeverForgotten ==
    [][\A r \in memories :
          r.importance = "critical" =>
          \/ r.id \in Ids(memories')
          \/ (ret'.op = "icm_forget" /\ ret'.args.id = r.id)]_vars

----------------------------------------------------------------------------
(* Claims about refine_concept *)

Range(seq) == {seq[i] : i \in 1..Len(seq)}

FirstIndex(seq, x) ==
    CHOOSE i \in 1..Len(seq) : seq[i] = x /\ \A j \in 1..(i - 1) : seq[j] # x

\* new is old, in order, followed by the ids of s that old does not have, in
\* the order of their first occurrence in s, each once.
IsMerged(old, s, new) ==
    /\ Len(new) >= Len(old)
    /\ SubSeq(new, 1, Len(old)) = old
    /\ LET tail == SubSeq(new, Len(old) + 1, Len(new)) IN
       /\ \A i, j \in 1..Len(tail) : i # j => tail[i] # tail[j]
       /\ Range(tail) = Range(s) \ Range(old)
       /\ \A i, j \in 1..Len(tail) :
             i < j => FirstIndex(s, tail[i]) < FirstIndex(s, tail[j])

\* C9: when refine_concept(id, d, s) returns Ok for an existing concept, the
\* concept has definition d, its revision is one more, its confidence is the
\* smaller of 1.0 and the old confidence plus 0.1, its source ids are the old
\* list followed by the ids of s not yet present (in the order of s, no
\* duplicates), and its name, memoir_id, labels and created_at are unchanged.
C9_RefineConceptResult ==
    [][(ret'.op = "refine_concept" /\ ret'.kind = "Ok") =>
       LET id == ret'.args.id
           d == ret'.args.text
           s == ret'.args.ids IN
       \A now \in Times :
          refine_concept(id, d, s, now) =>
          LET old == RowOf(concepts, id)
              new == RowOf(concepts', id) IN
          /\ new.definition = d
          /\ new.revision = old.revision + 1
          /\ new.confidence = Min(One32, AddTenth(old.confidence))
          /\ IsMerged(old.source_memory_ids, s, new.source_memory_ids)
          /\ new.name = old.name
          /\ new.memoir_id = old.memoir_id
          /\ new.labels = old.labels
          /\ new.created_at = old.created_at]_vars

\* A concept created with duplicate source ids and a confidence above 1.0 has
\* been refined with one source id it had and one it had not.
C9_Witness ==
    /\ ret.op = "refine_concept"
    /\ ret.kind = "Ok"
    /\ \E c \in concepts :
          /\ c.id = ret.args.id
          /\ c.revision = 2
          /\ c.confidence = One32
          /\ ret.args.ids = <<"m2", "m1">>
          /\ c.definition = "d2"
          /\ c.source_memory_ids = <<"m2", "m2", "m1">>

\* C10: when two refinements of one concept, issued over two connections,
\* have both returned Ok, the concept's revision is the old one plus 2, its
\* confidence is the old one raised twice by 0.1 (at most 1.0), and its
\* source ids hold those of both calls.
C10_ConcurrentRefinementsBothCount ==
    LET a == refine["ca"]
        b == refine["cb"] IN
    (a.pc = "ok" /\ b.pc = "ok" /\ a.id = b.id) =>
    LET old == IF a.concept.revision <= b.concept.revision THEN a.concept ELSE b.concept
        c == RowOf(concepts, a.id) IN
    /\ c.revision = old.revision + 2
    /\ c.confidence = NewConfidence(NewConfidence(old.confidence))
    /\ \A sid \in Range(a.new_source_ids) \cup Range(b.new_source_ids) :
          Contains(c.source_memory_ids, sid)

----------------------------------------------------------------------------
(* Claims about the concept graph *)

\* C12: add_link with source_id equal to target_id returns an error and
\* leaves the links unchanged, for every relation, whether or not the concept
\* exists.
C12_SelfLinkRejected ==
    [][(ret'.op = "add_link" /\ ret'.args.ids[1] = ret'.args.ids[2]) =>
       /\ ret'.kind # "Ok"
       /\ links' = links]_vars

\* A self-link on an existing concept, with a fresh link id, was refused
\* while the store holds a link.
C12_Witness ==
    /\ ret.op = "add_link"
    /\ ret.kind = "Database"
    /\ ret.args.ids[1] = ret.args.ids[2]
    /\ ret.args.ids[1] \in Ids(concepts)
    /\ ret.args.id \notin Ids(links)
    /\ links # {}

\* Both endpoints of every link are stored concepts.
EndpointsExist(ls, cs) ==
    \A l \in ls : l.source_id \in Ids(cs) /\ l.target_id \in Ids(cs)

\* C13: after every operation each stored link has a source and a target
\* that are stored concepts; add_link with a missing endpoint fails and adds
\* nothing; after delete_concept succeeds no link has the concept as source
\* or target.
C13_LinkEndpointsExist ==
    [][/\ EndpointsExist(links', concepts')
       /\ (ret'.op = "add_link" /\ \E i \in 1..2 : ret'.args.ids[i] \notin Ids(concepts)) =>
             (ret'.kind # "Ok" /\ links' = links)
       /\ (ret'.op = "delete_concept" /\ ret'.kind = "Ok") =>
             \A l \in links' : ret'.args.id \notin {l.source_id, l.target_id}]_vars

\* add_link between a stored concept and a missing one was refused.
C13_Witness ==
    /\ ret.op = "add_link"
    /\ ret.kind = "Database"
    /\ ret.args.id \notin Ids(links)
    /\ ret.args.ids[1] \in Ids(concepts)
    /\ ret.args.ids[2] \notin Ids(concepts)
    /\ links # {}

\* C14: when delete_memoir(m) returns Ok, the memoir, its concepts and every
\* link with one of them as source or target are gone, and the other
\* memoirs, concepts and links are unchanged; in every state each concept's
\* memoir and each link's endpoints are stored.
C14_DeleteMemoirCascades ==
    [][/\ \A c \in concepts' : c.memoir_id \in Ids(memoirs')
       /\ EndpointsExist(links', concepts')
       /\ (ret'.op = "delete_memoir" /\ ret'.kind = "Ok") =>
             LET m == ret'.args.id
                 owned == {c.id : c \in {x \in concepts : x.memoir_id = m}} IN
             /\ memoirs' = {x \in memoirs : x.id # m}
             /\ concepts' = {c \in concepts : c.memoir_id # m}
             /\ links' = {l \in links : l.source_id \notin owned /\ l.target_id \notin owned}]_vars

\* A memoir has been deleted; another memoir keeps a link between two of its
\* concepts.
C14_Witness ==
    /\ ret.op = "delete_memoir"
    /\ ret.kind = "Ok"
    /\ memoirs # {}
    /\ Cardinality(concepts) = 2
    /\ Cardinality(links) = 1

\* C18: add_concept with a (memoir_id, name) pair already stored fails and
\* changes no concept; add_concept with a fresh id, a stored memoir and a
\* name used only in other memoirs succeeds; no two stored concepts share
\* (memoir_id, name).
C18_ConceptNameUniquePerMemoir ==
    [][/\ \A a, b \in concepts' :
             (a.memoir_id = b.memoir_id /\ a.name = b.name) => a = b
       /\ ret'.op = "add_concept" =>
             LET taken == \E c \in concepts : /\ c.memoir_id = ret'.args.memoir_id
                                              /\ c.name = ret'.args.text IN
             /\ taken => (ret'.kind # "Ok" /\ concepts' = concepts)
             /\ (/\ ~taken
                 /\ ret'.args.id \notin Ids(concepts)
                 /\ ret'.args.memoir_id \in Ids(memoirs)) =>
                   (ret'.kind = "Ok" /\ ret'.args.id \in Ids(concepts'))]_vars

\* add_concept with a fresh id was refused for its (memoir_id, name), while
\* the same name is stored in another memoir.
C18_Witness ==
    /\ ret.op = "add_concept"
    /\ ret.kind = "Database"
    /\ ret.args.id \notin Ids(concepts)
    /\ \E c \in concepts : c.memoir_id = ret.args.memoir_id /\ c.name = ret.args.text
    /\ \E a, b \in concepts : a.name = b.name /\ a.memoir_id # b.memoir_id

\* C19: no two stored memoirs share a name; create_memoir with a name in use
\* fails, update_memoir renaming a memoir to the name of another fails, and
\* both leave the memoirs unchanged.
C19_MemoirNameUnique ==
    [][/\ \A a, b \in memoirs' : a.name = b.name => a = b
       /\ (/\ ret'.op = "create_memoir"
           /\ ret'.args.text \in {m.name : m \in memoirs}) =>
             (ret'.kind # "Ok" /\ memoirs' = memoirs)
       /\ (/\ ret'.op = "update_memoir"
           /\ \E m \in memoirs : m.id # ret'.args.id /\ m.name = ret'.args.text) =>
             (ret'.kind # "Ok" /\ memoirs' = memoirs)]_vars

\* update_memoir of a stored memoir to the name of another one was refused.
C19_Witness ==
    /\ ret.op = "update_memoir"
    /\ ret.kind = "Database"
    /\ ret.args.id \in Ids(memoirs)
    /\ \E m \in memoirs : m.id # ret.args.id /\ m.name = ret.args.text

\* C20: add_link with a (source, target, relation) already stored fails and
\* changes nothing; a link with a fresh id between two distinct stored
\* concepts whose triple is not stored is accepted, whatever other relation
\* or opposite link the two concepts already have.
C20_LinkTripleUnique ==
    [][ret'.op = "add_link" =>
       LET source == ret'.args.ids[1]
           target == ret'.args.ids[2]
           taken == \E l \in links : /\ l.source_id = source
                                     /\ l.target_id = target
                                     /\ ParseRelation(l.relation) = ret'.args.text IN
       /\ taken => (ret'.kind # "Ok" /\ links' = links)
       /\ (/\ ~taken
           /\ ret'.args.id \notin Ids(links)
           /\ source # target
           /\ {source, target} \subseteq Ids(concepts)) =>
             (ret'.kind = "Ok" /\ ret'.args.id \in Ids(links'))]_vars

\* With a link and its opposite stored, a link of another relation between
\* the same concepts was accepted.
C20_Witness ==
    /\ ret.op = "add_link"
    /\ ret.kind = "Ok"
    /\ \E a, b, c \in links :
          /\ a.source_id = b.target_id /\ a.target_id = b.source_id
          /\ a.relation = b.relation
          /\ c.source_id = a.source_id /\ c.target_id = a.target_id
          /\ c.relation # a.relation
          /\ c.id = ret.args.id

----------------------------------------------------------------------------
(* Claims about get_neighborhood *)

\* The ids of the rows of a returned list.
SeqIds(rows) == {rows[i].id : i \in DOMAIN rows}

\* The concepts one hop away from a set of concepts, links followed in both
\* directions.
OneHop(ids) ==
    {l.target_id : l \in {x \in links : x.source_id \in ids}}
        \cup {l.source_id : l \in {x \in links : x.target_id \in ids}}

\* The concepts at distance at most k from root.
RECURSIVE Within(_, _)
Within(root, k) ==
    IF k = 0
    THEN {root}
    ELSE LET near == Within(root, k - 1) IN near \cup OneHop(near)

\* C15: get_neighborhood(root, k) of an existing root returns exactly the
\* concepts at distance at most k from root, links followed in both
\* directions: root is among them and no concept farther than k hops is.
C15_NeighborhoodIsBall ==
    [][(ret'.op = "get_neighborhood" /\ ret'.args.id \in Ids(concepts)) =>
       /\ ret'.kind = "Ok"
       /\ ret'.args.id \in SeqIds(out'.concepts)
       /\ SeqIds(out'.concepts) = Within(ret'.args.id, ret'.args.num)
       /\ \A i \in DOMAIN out'.concepts : out'.concepts[i] \in concepts]_vars

\* A traversal of depth 2 returned three of four stored concepts, one of
\* them reached only against the direction of a link; the fourth concept is
\* linked but three hops away.
C15_Witness ==
    /\ ret.op = "get_neighborhood"
    /\ ret.kind = "Ok"
    /\ ret.args.num = 2
    /\ Cardinality(concepts) = 4
    /\ Len(out.concepts) = 3
    /\ Within(ret.args.id, 3) = Ids(concepts)
    /\ \E l \in links : l.target_id = ret.args.id
    /\ ~ \E l \in links : l.source_id = ret.args.id

\* C16: every link returned by get_neighborhood has its source and its
\* target in the returned concept list, and is a stored link with the same
\* source and the same target, in graphs with cycles and anti-parallel links
\* as in any other.
C16_ReturnedLinksAreClosed ==
    [][(ret'.op = "get_neighborhood" /\ ret'.kind = "Ok") =>
       \A i \in DOMAIN out'.links :
          LET link == out'.links[i] IN
          /\ link.source_id \in SeqIds(out'.concepts)
          /\ link.target_id \in SeqIds(out'.concepts)
          /\ \E l \in links : /\ l.id = link.id
                              /\ l.source_id = link.source_id
                              /\ l.target_id = link.target_id]_vars

\* A traversal returned links of a graph that has a cycle of three concepts
\* and a pair of anti-parallel links, and stopped before the whole graph.
C16_Witness ==
    /\ ret.op = "get_neighborhood"
    /\ ret.kind = "Ok"
    /\ \E x, y, z \in links :
          /\ x.target_id = y.source_id
          /\ y.target_id = z.source_id
          /\ z.target_id = x.source_id
          /\ Cardinality({x, y, z}) = 3
    /\ \E x, y \in links : x.source_id = y.target_id /\ x.target_id = y.source_id
    /\ Len(out.links) > 0
    /\ SeqIds(out.links) # Ids(links)

\* C17: in the output of get_neighborhood each concept appears at most once
\* in the concept list and each link at most once in the link list.
C17_NoDuplicates ==
    [][(ret'.op = "get_neighborhood" /\ ret'.kind = "Ok") =>
       /\ \A i, j \in DOMAIN out'.concepts :
             out'.concepts[i].id = out'.concepts[j].id => i = j
       /\ \A i, j \in DOMAIN out'.links :
             out'.links[i].id = out'.links[j].id => i = j]_vars

----------------------------------------------------------------------------
(* Claims about links and memoirs *)

\* The memoirs of the concepts a link joins.
MemoirsOf(link) ==
    {c.memoir_id : c \in {x \in concepts : x.id \in {link.source_id, link.target_id}}}

\* C21: in every reachable state each link joins two concepts of the same
\* memoir, whatever add_link, update_concept and icm_memoir_link did.
C21_LinkWithinOneMemoir ==
    \A l \in links : Cardinality(MemoirsOf(l)) = 1

----------------------------------------------------------------------------
(* Claims about the memories table *)

\* The fields of a Memory other than the access metadata.
MemoryFields ==
    {"id", "created_at", "weight", "topic", "summary", "raw_excerpt", "keywords",
     "importance", "source", "related_ids", "embedding"}

\* C22: store(m) followed by get(m.id) returns a memory equal to m in every
\* field other than last_accessed and access_count, for every fully formed
\* memory m.
C22_StoreGetRoundTrip ==
    [][(/\ ret.op = "store" /\ ret.kind = "Ok"
        /\ ret'.op = "get" /\ ret'.args.id = ret.args.id) =>
       /\ ret'.n = 1
       /\ \A f \in MemoryFields : out'[f] = out[f]]_vars

\* The words of the text columns of a memory and of a concept.
MemoryWords(r) == {r.topic, r.summary} \cup {r.keywords[i] : i \in DOMAIN r.keywords}
ConceptTextWords(c) ==
    {c.name, c.definition}
        \cup {c.labels[i].namespace : i \in DOMAIN c.labels}
        \cup {c.labels[i].value : i \in DOMAIN c.labels}

\* C23: for a query of a single word, search_fts returns no memory that
\* lacks the word in all of topic, summary and keywords, and
\* search_concepts_fts returns no concept that lacks it in all of name,
\* definition and labels.
C23_FtsMatchesText ==
    [][/\ (ret'.op = "search_fts" /\ ret'.kind = "Ok") =>
             \A r \in out' : ret'.args.text \in MemoryWords(r)
       /\ (ret'.op = "search_concepts_fts" /\ ret'.kind = "Ok") =>
             \A i \in DOMAIN out' : ret'.args.text \in ConceptTextWords(out'[i])]_vars

\* C24: after any sequence of store, update, delete, update_access,
\* apply_decay, prune and consolidate_topic the full-text index holds
\* exactly the stored memories, each with its current topic, summary and
\* keywords, and search_fts returns only stored memories whose current
\* indexed text has the word of the query.
C24_FtsIndexConsistent ==
    [][/\ Ids(fts') = Ids(memories')
       /\ fts' = {FtsRow(r) : r \in memories'}
       /\ (ret'.op = "search_fts" /\ ret'.kind = "Ok") =>
             /\ out' \subseteq memories'
             /\ \A r \in out' : ret'.args.text \in FtsTokens(r)]_vars

\* A search for a keyword returned one of two stored memories, the other
\* one not having the keyword, after accesses were counted and weights
\* decayed.
C24_Witness ==
    /\ ret.op = "search_fts"
    /\ ret.args.text = "k1"
    /\ Cardinality(out) = 1
    /\ Cardinality(memories) = 2
    /\ \E r \in memories : r \notin out /\ r.access_count > 0 /\ r.weight < WUnit

\* C25: search_concepts_by_label(memoir, label, k) returns only concepts of
\* that memoir that carry a label equal to the query label in namespace and
\* in value, in descending order of confidence, at most k of them.
C25_LabelSearchExact ==
    [][(ret'.op = "search_concepts_by_label" /\ ret'.kind = "Ok") =>
       LET label == [namespace |-> ret'.args.ids[1], value |-> ret'.args.ids[2]] IN
       /\ Len(out') <= ret'.args.num
       /\ \A i \in DOMAIN out' :
             /\ out'[i] \in concepts
             /\ out'[i].memoir_id = ret'.args.memoir_id
             /\ \E k \in DOMAIN out'[i].labels : out'[i].labels[k] = label
       /\ \A i, j \in DOMAIN out' :
             i < j => out'[i].confidence >= out'[j].confidence]_vars

----------------------------------------------------------------------------
(* Claims about the MCP server loop *)

\* The step read one more line from stdin.
LineRead == Len(server'.stdin) = Len(server.stdin) + 1

\* What the step wrote to stdout, after what was there before.
Written ==
    IF /\ Len(server'.stdout) >= Len(server.stdout)
       /\ SubSeq(server'.stdout, 1, Len(server.stdout)) = server.stdout
    THEN SubSeq(server'.stdout, Len(server.stdout) + 1, Len(server'.stdout))
    ELSE <<[id |-> "stdout rewritten", result |-> <<>>, error |-> <<>>]>>

\* The line is a JSON object with the members a request must have.
ParsesAsRequest(line) == line.kind = "json" /\ line.jsonrpc

ServedMethods == {"initialize", "ping", "tools/list", "tools/call"}

\* C26 as stated: a line that cannot be parsed as a request yields one
\* response with error.code = -32700 and id = null; a parsed request with an
\* id and a method other than initialize, ping, tools/list and tools/call
\* yields one response with that id and error.code = -32601; a parsed
\* request without an id yields no output.
C26_EveryLine ==
    [][LineRead =>
         LET line == server'.stdin[Len(server'.stdin)] IN
         /\ ~ParsesAsRequest(line) =>
               Written = <<[id |-> "null", result |-> <<>>, error |-> <<-32700>>]>>
         /\ (ParsesAsRequest(line) /\ line.id # Missing
                                   /\ line.method \notin ServedMethods) =>
               Written = <<[id |-> line.id, result |-> <<>>, error |-> <<-32601>>]>>
         /\ (ParsesAsRequest(line) /\ line.id = Missing) => Written = <<>>]_vars

\* C26, amended: a line that was read, is not blank and cannot be parsed as
\* a request yields one response with error.code = -32700 and id = null; a
\* parsed request with an id other than null and a method other than
\* initialize, ping, tools/list and tools/call yields one response with that
\* id and error.code = -32601; a parsed request whose id is absent or null
\* yields no output, whatever its method.
C26_ReadableNonBlankLine ==
    [][LineRead =>
         LET line == server'.stdin[Len(server'.stdin)] IN
         /\ (line.kind \notin {"unreadable", "blank"} /\ ~ParsesAsRequest(line)) =>
               Written = <<[id |-> "null", result |-> <<>>, error |-> <<-32700>>]>>
         /\ (ParsesAsRequest(line) /\ line.id \notin {Missing, "null"}
                                   /\ line.method \notin ServedMethods) =>
               Written = <<[id |-> line.id, result |-> <<>>, error |-> <<-32601>>]>>
         /\ (ParsesAsRequest(line) /\ line.id \in {Missing, "null"}) =>
               Written = <<>>]_vars

\* A line that is not JSON, then a request with id 1 for a method the
\* server does not serve: a parse error, then method not found.
C26_Witness ==
    /\ server.stdin = <<GarbageLine, JsonLine(TRUE, "1", "resources/list", <<>>)>>
    /\ server.stdout = <<[id |-> "null", result |-> <<>>, error |-> <<-32700>>],
                         [id |-> "1", result |-> <<>>, error |-> <<-32601>>]>>


\* The id of the response a line is answered with: its own id when it
\* parses as a request, null when it does not.
ResponseId(line) == IF ParsesAsRequest(line) THEN line.id ELSE "null"

RECURSIVE Select(_, _)
\* The lines of a sequence that are in a set, in their order.
Select(lines, S) ==
    IF lines = <<>>
    THEN <<>>
    ELSE IF lines[1] \in S
    THEN <<lines[1]>> \o Select(Tail(lines), S)
    ELSE Select(Tail(lines), S)

\* stdout holds one response for each of the lines, in their order, each
\* with the id of its line.
AnswersInOrder(lines) ==
    /\ Len(server.stdout) = Len(lines)
    /\ \A i \in DOMAIN lines : server.stdout[i].id = ResponseId(lines[i])

\* C27 as stated: when a line has been read, every line read so far that is
\* not a notification (a parsed request without an id) has exactly one
\* response, the responses are in the order of their lines, and the i-th
\* response carries the id of the i-th non-notification line.
C27_EveryNonNotificationAnswered ==
    AnswersInOrder(Select(server.stdin,
        {l \in ServerLines : ~(ParsesAsRequest(l) /\ l.id = Missing)}))

\* C27, amended: when a line has been read, every line read so far that is
\* neither blank nor a notification (a parsed request whose id is absent or
\* null) has exactly one response, written before the next line is read;
\* the responses are in the order of their lines, and the i-th response
\* carries the id of the i-th such line.
C27_ResponsesInRequestOrder ==
    AnswersInOrder(Select(server.stdin,
        {l \in ServerLines : /\ l.kind \notin {"blank", "unreadable"}
                             /\ ~(ParsesAsRequest(l) /\ l.id \in {Missing, "null"})}))

\* A notification, then a request with id 2: the only response is the one
\* to the second line.
C27_Witness ==
    /\ server.stdin = <<JsonLine(TRUE, Missing, "ping", <<>>),
                        JsonLine(TRUE, "2", "ping", <<>>)>>
    /\ server.stdout = <<JsonRpcResponse_ok("2", "{}")>>


\* C28: a tools/call request that is answered (its id is present and not
\* null) and whose params hold a string name gets exactly one response, a
\* JSON-RPC success with its id whose result is a tool-result envelope,
\* whatever the name and the arguments; the envelope has isError = true
\* exactly when the tool failed, as it does for an unknown tool; and when
\* params or the name are missing the response is the JSON-RPC error
\* -32602.
C28_ToolErrorsStayInEnvelope ==
    [][LineRead =>
         LET line == server'.stdin[Len(server'.stdin)] IN
         (ParsesAsRequest(line) /\ line.id \notin {Missing, "null"}
                                /\ line.method = "tools/call") =>
            IF line.params # <<>> /\ line.params[1].name # Missing
            THEN /\ Len(Written) = 1
                 /\ Written[1].id = line.id
                 /\ Written[1].error = <<>>
                 /\ Written[1].result \in {<<"{content}">>, <<"{content, isError: true}">>}
                 /\ Written[1].result = <<"{content, isError: true}">>
                        <=> ret'.kind = "isError"
                 /\ line.params[1].name = "icm_unknown" => ret'.kind = "isError"
            ELSE Written = <<[id |-> line.id, result |-> <<>>, error |-> <<-32602>>]>>]_vars

\* A memory stored through icm_store, then a call of a tool that does not
\* exist: two successes, the second with isError = true in its envelope.
C28_Witness ==
    /\ Len(server.stdin) = 2
    /\ server.stdin[1].params = Params("icm_store", [NoArguments EXCEPT !.topic = "ta",
                                                                        !.content = "s1"])
    /\ server.stdin[2].params = Params("icm_unknown", NoArguments)
    /\ server.stdout = <<JsonRpcResponse_ok("1", "{content}"),
                         JsonRpcResponse_ok("1", "{content, isError: true}")>>
    /\ memories # {}


----------------------------------------------------------------------------
(* Claims about icm_recall *)

\* The topic filter of a call of icm_recall.
TopicFilter(T, topic) == IF topic = Missing THEN T ELSE {r \in T : r.topic = topic}

\* C29: a call of icm_recall that returns a text took its rows from one
\* search: from the hybrid search only when there is an embedder; else from
\* the full-text search, when that returned a row; from the keyword search
\* only when the full-text search returned none; what the text lists is the
\* rows of that one search with the topic filter applied, so a filter that
\* leaves nothing does not lead to a later search.
C29_RecallPathOrder ==
    [][(ret'.op = "icm_recall" /\ ret'.kind = "Ok") =>
         LET a == ret'.args
             listed == {r \in memories : r.id \in a.found} IN
         /\ a.path \in {"hybrid", "fts", "keywords"}
         /\ ~embedder => a.path # "hybrid"
         /\ a.path = "hybrid" =>
               \E H \in SUBSET memories : listed = TopicFilter(H, a.topic)
         /\ a.path = "fts" =>
               \E F \in search_fts(a.text, a.num) :
                  F # {} /\ listed = TopicFilter(F, a.topic)
         /\ a.path = "keywords" =>
               /\ search_fts(a.text, a.num) = {{}}
               /\ \E K \in search_by_keywords({a.text}, a.num) :
                     listed = TopicFilter(K, a.topic)]_vars

\* Without an embedder, memories of topics ta and tb are stored and
\* icm_recall is called with the query "ta" and the topic "ta": the
\* full-text search finds the row and the text lists it.
C29_Witness ==
    /\ ~embedder
    /\ ret.op = "icm_recall"
    /\ ret.kind = "Ok"
    /\ ret.args.path = "fts"
    /\ ret.args.text = "ta"
    /\ ret.args.topic = "ta"
    /\ ret.n = 1
    /\ Cardinality(memories) = 2


\* C30: a call of icm_recall whose text lists the memories R leaves the
\* store with the access_count of every memory of R whose update_access
\* succeeded one higher, and with every other memory, and every other
\* column, as it was; the updates are made before the tool returns its
\* text; an update_access that fails leaves the result a text, not an
\* error, and the other memories of R are updated all the same; and a call
\* that does return an error has updated nothing.
C30_RecallRecordsAccess ==
    [][ret'.op = "icm_recall" =>
         LET R == ret'.args.found
             failed == ret'.args.failed
             After(m) == [m EXCEPT !.access_count =
                                      IF m.id \in R \ failed THEN @ + 1 ELSE @] IN
         IF ret'.kind = "Ok"
         THEN /\ failed \subseteq R
              /\ R \subseteq Ids(memories)
              /\ ret'.n = Cardinality(R)
              /\ memories' = {After(m) : m \in memories}
         ELSE /\ failed = {}
              /\ memories' = memories]_vars

\* Two memories are listed; the update of one failed, the other has been
\* accessed once.
C30_Witness ==
    /\ ret.op = "icm_recall"
    /\ ret.kind = "Ok"
    /\ Cardinality(ret.args.found) = 2
    /\ Cardinality(ret.args.failed) = 1
    /\ \E m \in memories : m.id \in ret.args.found \ ret.args.failed /\ m.access_count = 1
    /\ \E m \in memories : m.id \in ret.args.failed /\ m.access_count = 0


\* C31: the answer to tools/list names icm_embed_all exactly when the
\* server was started with an embedder; and without an embedder a call of
\* icm_embed_all is answered with an envelope that has isError = true and
\* leaves every memory as it was.
C31_EmbedAllOnlyWithEmbedder ==
    [][LineRead =>
         LET line == server'.stdin[Len(server'.stdin)] IN
         (ParsesAsRequest(line) /\ line.id \notin {Missing, "null"}) =>
            /\ line.method = "tools/list" =>
                  /\ Len(Written) = 1
                  /\ Written[1].error = <<>>
                  /\ Written[1].result \in {<<"tools">>, <<"tools with icm_embed_all">>}
                  /\ Written[1].result = <<"tools with icm_embed_all">> <=> embedder
            /\ (/\ line.method = "tools/call"
                /\ line.params # <<>>
                /\ line.params[1].name = "icm_embed_all"
                /\ ~embedder) =>
                  /\ Len(Written) = 1
                  /\ Written[1].result = <<"{content, isError: true}">>
                  /\ memories' = memories
                  /\ fts' = fts]_vars

\* Without an embedder: a memory is stored, then icm_embed_all is called
\* and answered with an error envelope.
C31_Witness ==
    /\ ~embedder
    /\ Len(server.stdin) = 2
    /\ server.stdin[2].params = Params("icm_embed_all", NoArguments)
    /\ server.stdin[2].id = "1"
    /\ server.stdout[2] = JsonRpcResponse_ok("1", "{content, isError: true}")
    /\ memories # {}


----------------------------------------------------------------------------
(* Claims about the fact extractor *)

----------------------------------------------------------------------------
(* Claims about identifiers that are not stored *)

\* The table a call looks its identifier up in.
TableOf(op) ==
    CASE op \in {"update", "delete", "update_access", "get"} -> memories
      [] op \in {"update_memoir", "delete_memoir"} -> memoirs
      [] op \in {"update_concept", "delete_concept", "refine_concept"} -> concepts
      [] op = "delete_link" -> links

\* C33: update, delete, update_access, update_memoir, delete_memoir,
\* update_concept, delete_concept, delete_link and refine_concept called
\* with an identifier that is not stored return NotFound and leave every
\* table as it was; get with such an identifier returns none, not an error.
C33_AbsentIdIsNotFound ==
    [][/\ (/\ ret'.op \in {"update", "delete", "update_access", "update_memoir",
                           "delete_memoir", "update_concept", "delete_concept",
                           "delete_link", "refine_concept"}
           /\ ret'.args.id \notin Ids(TableOf(ret'.op))) =>
             /\ ret'.kind = "NotFound"
             /\ UNCHANGED <<memories, fts, memoirs, concepts, links>>
       /\ (ret'.op = "get" /\ ret'.args.id \notin Ids(memories)) =>
             /\ ret'.kind = "Ok"
             /\ ret'.n = 0
             /\ out' = {}
             /\ UNCHANGED <<memories, fts, memoirs, concepts, links>>]_vars

\* update_concept of a concept that is not stored, on a store that holds a
\* memory, a memoir and another concept.
C33_Witness ==
    /\ ret.op = "update_concept"
    /\ ret.kind = "NotFound"
    /\ ret.args.id \notin Ids(concepts)
    /\ concepts # {}
    /\ memories # {}

----------------------------------------------------------------------------
(* Claims about the arguments of the tools *)

\* The line the turn of the loop just taken has read.
LastLine == server'.stdin[Len(server'.stdin)]
\* That line is a request that calls a tool by name.
CallsTool ==
    /\ Len(server'.stdin) = Len(server.stdin) + 1
    /\ ParsesAsRequest(LastLine)
    /\ LastLine.method = "tools/call"
    /\ LastLine.params # <<>>
    /\ LastLine.params[1].name # Missing
CalledTool == LastLine.params[1].name
CalledArguments == LastLine.params[1].arguments
\* The required fields the arguments of that call lack.
Lacking == {f \in Required(CalledTool) : CalledArguments[f] = Missing}

\* C34: a call of a tool whose arguments lack a required field, or give it
\* a value that is no string, is answered with an envelope that has
\* isError = true and names one of the fields that lack, and changes no
\* memory, index entry, memoir, concept or link.
C34_MissingFieldChangesNothing ==
    [][(CallsTool /\ Lacking # {}) =>
          /\ Len(server'.stdout) = Len(server.stdout) + 1
          /\ server'.stdout[Len(server'.stdout)] =
                JsonRpcResponse_ok(ResponseId(LastLine), "{content, isError: true}")
          /\ ret'.op = CalledTool
          /\ ret'.kind = "isError"
          /\ \E f \in Lacking : ret'.args.text = "missing required field: " \o f
          /\ UNCHANGED <<memories, fts, memoirs, concepts, links>>]_vars

\* icm_consolidate was called with a topic that holds a memory and without
\* a summary: the answer names the summary and the memory is still stored.
C34_Witness ==
    /\ server.stdin # <<>>
    /\ LET line == server.stdin[Len(server.stdin)] IN
       /\ line.method = "tools/call"
       /\ line.params # <<>>
       /\ line.params[1].name = "icm_consolidate"
       /\ line.params[1].arguments.topic = "ta"
       /\ line.params[1].arguments.summary = Missing
    /\ ret.op = "icm_consolidate"
    /\ ret.args.text = "missing required field: summary"
    /\ \E r \in memories : r.topic = "ta"
    /\ server.stdout # <<>>
    /\ server.stdout[Len(server.stdout)].result = <<"{content, isError: true}">>

----------------------------------------------------------------------------
(* Claims about the loop of get_neighborhood *)

\* C35: get_neighborhood returns for every graph, cycles and anti-parallel
\* links included, and for every depth: each turn of its loop takes a
\* different stored concept from the queue, so there are at most as many
\* turns as concepts, every concept queued is taken, and each is queued
\* once; for a seed that is not stored it returns NotFound after no turn.
C35_TraversalBounded ==
    [][ret'.op = "get_neighborhood" =>
          IF ret'.args.id \in Ids(concepts)
          THEN /\ ret'.kind = "Ok"
               /\ \A i, j \in DOMAIN ret'.args.ids :
                     ret'.args.ids[i] = ret'.args.ids[j] => i = j
               /\ \A i \in DOMAIN ret'.args.ids : ret'.args.ids[i] \in Ids(concepts)
               /\ Len(ret'.args.ids) <= Cardinality(concepts)
               /\ ret'.args.ids = [i \in DOMAIN out'.concepts |-> out'.concepts[i].id]
          ELSE /\ ret'.kind = "NotFound"
               /\ ret'.args.ids = <<>>
               /\ out' = NoOut]_vars

\* A traversal to the huge depth of a graph that has a cycle of three
\* concepts and a pair of anti-parallel links among them: three turns.
C35_Witness ==
    /\ ret.op = "get_neighborhood"
    /\ ret.kind = "Ok"
    /\ ret.args.num = HugeDepth
    /\ Len(ret.args.ids) = 3
    /\ Len(out.links) > Cardinality(links)
    /\ \E x, y, z \in links :
          /\ x.target_id = y.source_id
          /\ y.target_id = z.source_id
          /\ z.target_id = x.source_id
          /\ Cardinality({x, y, z}) = 3
    /\ \E x, y \in links : x.source_id = y.target_id /\ x.target_id = y.source_id

----------------------------------------------------------------------------
(* Claims about the end of the input stream *)

\* The lines the loop answers: those that are neither blank nor unreadable
\* nor a notification.
DueResponse ==
    {l \in CloseLines : /\ l.kind \notin {"blank", "unreadable"}
                        /\ ~(ParsesAsRequest(l) /\ l.id \in {Missing, "null"})}

\* C36: once the input stream is closed the loop ends; when it has ended,
\* every line read that is due a response has it, the responses in the order
\* of their lines, so the turn in progress was completed first; and nothing
\* is read or written after the loop has ended.
C36_CloseEndsLoop ==
    /\ server.closed ~> ~server.open
    /\ [](~server.open => AnswersInOrder(Select(server.stdin, DueResponse)))
    /\ [][~server.open => server' = server]_vars

\* The stream was closed after a request and a call of icm_store were read:
\* the loop has ended, both are answered and the memory is stored.
C36_Witness ==
    /\ server.closed
    /\ ~server.open
    /\ server.stdin = <<JsonLine(TRUE, "1", "ping", <<>>), Call("icm_store", StoreArguments)>>
    /\ Len(server.stdout) = 2
    /\ memories # {}

----------------------------------------------------------------------------
(* Claims about the requests that only read *)

ReadOnlyMethods == {"initialize", "ping", "tools/list"}
ReadOnlyTools ==
    {"icm_list_topics", "icm_stats", "icm_memoir_list", "icm_memoir_show",
     "icm_memoir_search", "icm_memoir_inspect"}

\* C37: a turn of the loop that serves initialize, ping, tools/list or a
\* call of icm_list_topics, icm_stats, icm_memoir_list, icm_memoir_show,
\* icm_memoir_search or icm_memoir_inspect changes no memory, index entry,
\* memoir, concept or link, whatever the arguments and whether the tool
\* succeeds or fails.
C37_ReadOnlyRequests ==
    [][(/\ Len(server'.stdin) = Len(server.stdin) + 1
        /\ ParsesAsRequest(LastLine)
        /\ \/ LastLine.method \in ReadOnlyMethods
           \/ CallsTool /\ CalledTool \in ReadOnlyTools) =>
          UNCHANGED <<memories, fts, memoirs, concepts, links>>]_vars

\* icm_memoir_inspect has listed a link of a concept, icm_memoir_show has
\* failed on a memoir that is not stored, and the store holds what it held
\* at the start.
C37_Witness ==
    /\ Len(server.stdin) = 2
    /\ server.stdin[1].method = "tools/call"
    /\ server.stdin[1].params[1].name = "icm_memoir_show"
    /\ server.stdout[1].result = <<"{content, isError: true}">>
    /\ server.stdin[2].method = "tools/call"
    /\ server.stdin[2].params[1].name = "icm_memoir_inspect"
    /\ ret.op = "icm_memoir_inspect"
    /\ ret.kind = "Ok"
    /\ ret.n > 0
    /\ Cardinality(memories) = 1
    /\ Cardinality(concepts) = 2
    /\ Cardinality(links) = 1

----------------------------------------------------------------------------
(* Claims about forgetting *)

\* The weight of the memory with an identifier, in a set of rows that holds it.
WeightOf(rows, id) == (CHOOSE r \in rows : r.id = id).weight

\* C38: under repeated cycles of apply_decay with a factor between 0 and 1
\* and prune with a positive threshold, every stored memory that is not
\* critical is eventually removed, whatever retrievals come in between:
\* update_access and icm_recall remove no memory and leave every weight as
\* it was.
C38_ForgottenDespiteRecall ==
    /\ \A id \in ForgetIds :
          (\E r \in memories : r.id = id /\ r.importance # "critical")
             ~> (id \notin Ids(memories))
    /\ [][ret'.op \in {"update_access", "icm_recall"} =>
             /\ Ids(memories') = Ids(memories)
             /\ \A id \in Ids(memories) :
                   WeightOf(memories', id) = WeightOf(memories, id)]_vars

\* icm_recall has just returned a memory that is not critical, was decayed
\* below a threshold and has been retrieved as often as the model counts.
C38_Witness ==
    /\ ret.op = "icm_recall"
    /\ \E r \in memories :
          /\ r.id \in ret.args.found
          /\ r.importance # "critical"
          /\ r.access_count = MaxAccess
          /\ r.weight < WUnit \div 2


\* The memories a query matches: by full text, or by keyword substring when
\* none matches by full text.
Matching(query) ==
    LET by_fts == UNION search_fts(query, -1)
        by_keywords == UNION search_by_keywords({query}, -1) IN
    IF by_fts # {} THEN by_fts ELSE by_keywords

\* C39: without an embedder, a call of icm_recall with a topic filter whose
\* query matches a stored memory of that topic lists at least one memory,
\* whatever the limit the schema admits (1 or more) and whatever memories
\* of other topics match too.
C39_TopicRecallComplete ==
    [][(/\ ret'.op = "icm_recall"
        /\ ~embedder
        /\ ret'.args.topic # Missing
        /\ ret'.args.num >= 1
        /\ \E r \in Matching(ret'.args.text) : r.topic = ret'.args.topic) =>
          /\ ret'.kind = "Ok"
          /\ ret'.n > 0]_vars


\* C40: a call of icm_recall lists no more memories than the limit it was
\* given (none for a limit of 0 or less) and no more than the greatest limit
\* of the schema, whatever integer the limit is; a limit that is absent or
\* no integer is the default one.
C40_LimitBoundsResults ==
    [][ret'.op = "icm_recall" /\ ret'.kind = "Ok" =>
          /\ ret'.n <= (IF ret'.args.num < 0 THEN 0 ELSE ret'.args.num)
          /\ ret'.n <= MaxLimit]_vars

====
